---------------------------- MODULE Spec2Model ----------------------------
(***************************************************************************)
(* The control core of the ESP8266 clock / weather display firmware:       *)
(* the button-driven mode state machine of loop(), the cooperative weather *)
(* and forecast fetch tasks, the periodic firmware check and the streamed  *)
(* firmware update, over the persistent EEPROM bytes.                      *)
(*                                                                         *)
(* One iteration of loop() is one step (the action Loop).  The blocking    *)
(* routines startOTAUpdate and enterSleep, which never return to loop(),   *)
(* have positions of their own in pc; "restart" is the device between      *)
(* ESP.restart() (or power-on) and setup().  What the display shows is not *)
(* modelled.  tasksMidLoop keeps the two task states as they were between  *)
(* the parts of the last iteration: after the screen rotation and after    *)
(* handleWeatherTask().                                                    *)
(*                                                                         *)
(* Time.  The code only ever reads time as a difference millis() - t of    *)
(* unsigned 32-bit values, so each timestamp t is kept as that difference  *)
(* (the variable sinceT), which is also what a back-dated timestamp        *)
(* (millis() - 840000UL) means in unsigned arithmetic.  One loop iteration *)
(* takes d milliseconds, d drawn from Deltas; each elapsed time is kept at *)
(* the resolution of the comparisons made on it, rounded down, and only    *)
(* while the code can still read it.                                       *)
(*                                                                         *)
(* Network.  hosts is the set of services that accept connections in the   *)
(* deployment the device runs in; it never changes.                        *)
(***************************************************************************)
EXTENDS Integers, Sequences, FiniteSets, TLC

(***************************************************************************)
(* Program constants                                                       *)
(***************************************************************************)
EEPROM_SIZE == 1024
ADDR_SSID == 0
ADDR_PASS == 70
ADDR_CITY == 140
ADDR_TZ == 210
ADDR_GREETING == 220
ADDR_FIRMWARE_URL == 430
ADDR_SIGNATURE == 600
ADDR_ETAG == 610
ETagMaxLen == 90
LoadETagBuf == 99
EraseByte == 255
ADDR_LUCKY_URL == 710
\* setup() samples the button every 10 ms for 500 ms and wants more than
\* 10 low samples in a row
BootWindowMs == 500
BootSampleMs == 10
BootLowCount == 10
\* char buf[80], buf[150], buf[100], buf[200] of loadSettings
NameBuf == 80
UrlBuf == 150
ETagBuf == 100
LuckyBuf == 200
\* the lengths saveSettings limits the three URLs to
GreetingSaveMax == 200
FirmwareSaveMax == 150
LuckySaveMax == 200

HoldMs == 2000
DebounceMs == 50
WeatherStaleMs == 900000
WeatherRetryBackdate == 840000
ForecastStaleMs == 3600000
ForecastRetryBackdate == 3300000
TaskTimeoutMs == 10000
OTACheckMs == 600000
OTAFirstCheckBackdate == 570000
OTAStallMs == 10000
OTAAttempts == 3
HTTP_CODE_OK == 200

(***************************************************************************)
(* Bounds of the model                                                     *)
(***************************************************************************)
\* (ESP.getFreeSketchSpace() - 0x1000) & 0xFFFFF000, in model bytes
MaxSketchSpace == 3
\* the most bytes one stream read delivers (sizeof(buff) in the code)
MaxChunk == 2

(***************************************************************************)
(* Time                                                                    *)
(***************************************************************************)
\* one loop iteration takes d milliseconds
Deltas == {20, 60, 2001, 60001, 3600001}

\* the elapsed times each comparison of the code can tell apart
ButtonGrid == {0, DebounceMs + 1, HoldMs + 1}
ScreenGrid == {0, 45001}
CheckGrid == {0, OTAFirstCheckBackdate, OTACheckMs + 1}
WeatherGrid == {0, WeatherRetryBackdate, WeatherStaleMs + 1}
ForecastGrid == {0, ForecastRetryBackdate, ForecastStaleMs + 1}
TimeoutGrid == {0, TaskTimeoutMs + 1}

SetMax(S) == CHOOSE x \in S : \A y \in S : y <= x

\* an elapsed time at the resolution of a grid, rounded down
Quantize(t, grid) == SetMax({g \in grid : g <= t})

\* the elapsed time since a timestamp, d milliseconds later
Later(since, d, grid) == Quantize(since + d, grid)

(***************************************************************************)
(* Bytes and text                                                          *)
(***************************************************************************)
\* 'C', 'F', 'G', '1'
Signature == <<67, 70, 71, 49>>

\* the characters String::trim() strips (isspace)
WhiteBytes == {32, 9, 10, 11, 12, 13}

RECURSIVE TrimLeft(_, _)
TrimLeft(s, white) ==
  IF s # <<>> /\ Head(s) \in white THEN TrimLeft(Tail(s), white) ELSE s

RECURSIVE TrimRight(_, _)
TrimRight(s, white) ==
  IF s # <<>> /\ s[Len(s)] \in white
  THEN TrimRight(SubSeq(s, 1, Len(s) - 1), white)
  ELSE s

\* String::trim() on a string of bytes
TrimBytes(s) == TrimRight(TrimLeft(s, WhiteBytes), WhiteBytes)

\* String(buf) of a NUL-terminated buffer: the bytes before the first 0
CString(s) ==
  LET nuls == {i \in 1..Len(s) : s[i] = 0}
  IN IF nuls = {} THEN s
     ELSE SubSeq(s, 1, (CHOOSE i \in nuls : \A j \in nuls : i <= j) - 1)

Min(a, b) == IF a < b THEN a ELSE b

(***************************************************************************)
(* EEPROM: address -> byte; an address not in the domain holds the erased  *)
(* value 0xFF.                                                             *)
(***************************************************************************)
EepromRead(e, a) == IF a \in DOMAIN e THEN e[a] ELSE EraseByte

EepromWrite(e, a, b) ==
  IF b = EraseByte
  THEN [x \in DOMAIN e \ {a} |-> e[x]]
  ELSE [x \in DOMAIN e \cup {a} |-> IF x = a THEN b ELSE e[x]]

\* EEPROM.write(addr + i - 1, s[i]) for every i
EepromWriteBytes(e, addr, s) ==
  LET written == addr..(addr + Len(s) - 1)
      byte(x) == IF x \in written THEN s[x - addr + 1] ELSE e[x]
  IN [x \in {y \in DOMAIN e \cup written : byte(y) # EraseByte} |-> byte(x)]

EepromReadBytes(e, addr, n) == [i \in 1..n |-> EepromRead(e, addr + i - 1)]

SignatureValid(e) == EepromReadBytes(e, ADDR_SIGNATURE, 4) = Signature

\* one length-prefixed string field as loadSettings reads it: len bytes
\* (at most bufCap of them copied), terminated at buf[len]
LoadField(e, addr, bufCap) ==
  LET len == EepromRead(e, addr)
  IN IF len > 0 /\ len < EraseByte
     THEN CString(EepromReadBytes(e, addr + 1, Min(len, bufCap)))
     ELSE <<>>

LoadFirmwareUrl(e) == LoadField(e, ADDR_FIRMWARE_URL, 149)

LoadETag(e) == TrimBytes(LoadField(e, ADDR_ETAG, LoadETagBuf))

\* the entity tag startOTAUpdate persists: at most 90 bytes of it
ETagToStore(tag) == SubSeq(tag, 1, Min(Len(tag), ETagMaxLen))

StoreETag(e, tag) ==
  LET t == ETagToStore(tag)
  IN EepromWriteBytes(EepromWrite(e, ADDR_ETAG, Len(t)), ADDR_ETAG + 1, t)

\* the bytes of the entity-tag region (up to the next field, at 710)
ETagRegion(e) == EepromReadBytes(e, ADDR_ETAG, 100)

(***************************************************************************)
(* loadSettings and saveSettings                                           *)
(***************************************************************************)
\* the globals the configuration record holds, besides firmwareUrl and
\* currentFirmwareETag; fault: loadSettings wrote outside a buffer and the
\* device did not survive it
SettingsInitial ==
  [wifiSSID |-> <<>>, wifiPass |-> <<>>, city |-> <<>>, greetingUrl |-> <<>>,
   luckyImageUrl |-> <<>>, timezoneOffset |-> 0, fault |-> FALSE]

\* buf[len] = '\0' (and for the SSID, the password and the city, buf[i] of
\* the copy loop) lies outside char buf[bufSize]
LoadOverruns(e, addr, bufSize) ==
  LET len == EepromRead(e, addr)
  IN len > 0 /\ len < EraseByte /\ len >= bufSize

LoadSettingsOverruns(e) ==
  \/ LoadOverruns(e, ADDR_SSID, NameBuf)
  \/ LoadOverruns(e, ADDR_PASS, NameBuf)
  \/ LoadOverruns(e, ADDR_CITY, NameBuf)
  \/ LoadOverruns(e, ADDR_GREETING, UrlBuf)
  \/ LoadOverruns(e, ADDR_FIRMWARE_URL, UrlBuf)
  \/ LoadOverruns(e, ADDR_ETAG, ETagBuf)
  \/ LoadOverruns(e, ADDR_LUCKY_URL, LuckyBuf)

\* a write outside a stack buffer is undefined: the function may return as
\* if nothing happened, or the device may crash
LoadFaults(e) == IF LoadSettingsOverruns(e) THEN BOOLEAN ELSE {FALSE}

\* (int) of the four bytes at ADDR_TZ, least significant first
LoadTimezone(e) ==
  LET b == EepromReadBytes(e, ADDR_TZ, 4)
      top == IF b[4] >= 128 THEN b[4] - 256 ELSE b[4]
  IN b[1] + 256 * b[2] + 65536 * b[3] + 16777216 * top

\* the copy loops of the SSID, the password and the city have no limit
\* besides len, which is below 0xFF
LoadSettings(e) ==
  [wifiSSID |-> LoadField(e, ADDR_SSID, EraseByte),
   wifiPass |-> LoadField(e, ADDR_PASS, EraseByte),
   city |-> LoadField(e, ADDR_CITY, EraseByte),
   greetingUrl |-> LoadField(e, ADDR_GREETING, UrlBuf - 1),
   luckyImageUrl |-> LoadField(e, ADDR_LUCKY_URL, LuckyBuf - 1),
   timezoneOffset |-> LoadTimezone(e),
   fault |-> FALSE]

\* uint8_t len = s.length()
Len8(s) == Len(s) % 256

\* what saveSettings writes for a string, from the field's address on: the
\* length and len bytes, or a single 0
FieldBytes(s, len) == IF len > 0 THEN <<len>> \o SubSeq(s, 1, len) ELSE <<0>>

\* tz & 0xFF, (tz >> 8) & 0xFF, (tz >> 16) & 0xFF, (tz >> 24) & 0xFF
TimezoneBytes(tz) ==
  <<tz % 256, (tz \div 256) % 256, (tz \div 65536) % 256,
    (tz \div 16777216) % 256>>

\* the writes of saveSettings, in the order it makes them
SaveFields(g, url) ==
  <<[addr |-> ADDR_SSID, bytes |-> FieldBytes(g.wifiSSID, Len8(g.wifiSSID))],
    [addr |-> ADDR_PASS, bytes |-> FieldBytes(g.wifiPass, Len8(g.wifiPass))],
    [addr |-> ADDR_CITY, bytes |-> FieldBytes(g.city, Len8(g.city))],
    [addr |-> ADDR_GREETING,
     bytes |-> FieldBytes(g.greetingUrl,
                          Min(Len8(g.greetingUrl), GreetingSaveMax))],
    [addr |-> ADDR_FIRMWARE_URL,
     bytes |-> FieldBytes(url, Min(Len8(url), FirmwareSaveMax))],
    [addr |-> ADDR_LUCKY_URL,
     bytes |-> FieldBytes(g.luckyImageUrl,
                          Min(Len8(g.luckyImageUrl), LuckySaveMax))],
    [addr |-> ADDR_TZ, bytes |-> TimezoneBytes(g.timezoneOffset)],
    [addr |-> ADDR_SIGNATURE, bytes |-> Signature]>>

\* saveSettings resetting the stored entity tag as well
SaveSettingsClearsETag(e, g, url) ==
  LET f == SaveFields(g, url)
      W(x, i) == EepromWriteBytes(x, f[i].addr, f[i].bytes)
  IN EepromWrite(W(W(W(W(W(W(W(W(e, 1), 2), 3), 4), 5), 6), 7), 8),
                 ADDR_ETAG, 0)

\* the EEPROM buffer after the writes of saveSettings
SaveSettings(e, g, url) ==
  LET f == SaveFields(g, url)
      W(x, i) == EepromWriteBytes(x, f[i].addr, f[i].bytes)
  IN W(W(W(W(W(W(W(W(e, 1), 2), 3), 4), 5), 6), 7), 8)

\* EEPROM.commit() erases the flash sector and then programs the buffer
\* from address 0 upwards; cut short at address k it leaves the bytes
\* below k and erased bytes from k on
CommitPrefix(buf, k) == [x \in {y \in DOMAIN buf : y < k} |-> buf[x]]

\* the addresses at which a commit is cut short
CutAddresses ==
  {ADDR_SSID, ADDR_PASS, ADDR_CITY, ADDR_TZ, ADDR_GREETING,
   ADDR_FIRMWARE_URL, ADDR_SIGNATURE, ADDR_SIGNATURE + 2, ADDR_ETAG,
   ADDR_LUCKY_URL}

\* the flash after a power loss inside saveSettings: untouched (before the
\* commit began), or a part of the buffer that leaves out at least one byte
InterruptedCommits(before, buf) ==
  {before} \cup
    {CommitPrefix(buf, k) :
       k \in {c \in CutAddresses : \E a \in DOMAIN buf : a >= c}}

\* String::toInt(): an optional minus sign and the leading decimal digits
RECURSIVE DigitsValue(_, _)
DigitsValue(s, acc) ==
  IF s = <<>> \/ s[1] \notin 48..57 THEN acc
  ELSE DigitsValue(Tail(s), 10 * acc + (s[1] - 48))

ToInt(s) ==
  IF s # <<>> /\ s[1] = 45 THEN 0 - DigitsValue(Tail(s), 0)
  ELSE DigitsValue(s, 0)

(***************************************************************************)
(* System modes (systemMode) and screens (currentScreen)                   *)
(***************************************************************************)
MODE_NORMAL == 0
MODE_CONFIG == 1
MODE_UPDATE == 2
MODE_SLEEP_CONFIRM == 3
MODE_OTA == 4

SCREEN_TIME == 0
SCREEN_WEATHER == 1
SCREEN_FORECAST == 2
SCREEN_GREETING == 3
SCREEN_LUCKY == 4

VARIABLES
  pc,                  \* where the single control flow stands
  hosts,               \* the services that accept connections
  eeprom,              \* the persistent bytes
  wifiMode,            \* "STA", "AP" or "OFF"
  systemMode,
  sleepSelectedYes,
  btnDown,             \* btnPressStart != 0
  sinceBtnPress,       \* millis() - btnPressStart while btnDown
  btnActionTaken,
  releasedAfter,       \* millis() - btnPressStart at the release of the last iteration
  currentScreen,
  sinceScreenSwitch,   \* millis() - lastScreenSwitch
  firmwareUrl,
  currentFirmwareETag,
  pendingOTA_ETag,
  sinceOTACheck,       \* millis() - lastOTACheck
  httpCheck,           \* what checkForFirmwareUpdate saw in the last iteration
  weatherTaskState,
  forecastTaskState,
  weatherValid,
  forecastValid,
  sinceWeatherFetch,   \* millis() - lastWeatherFetch
  sinceForecastFetch,  \* millis() - lastForecastFetch
  sinceWeatherTimer,   \* millis() - weatherTaskTimer while a response is awaited
  weather,             \* weatherTemp, weatherCond, weatherHum, weatherWind, weatherPress
  weatherResponseBuffer,
  weatherClient,       \* the weather task's connection and what its peer still sends
  forecasts,           \* forecasts[0..2].fullText
  tasksMidLoop,        \* the two task states at the points inside the last loop()
  ota,                 \* the running (or last) startOTAUpdate call
  settings,            \* wifiSSID, wifiPass, city, greetingUrl, luckyImageUrl, timezoneOffset
  store,               \* the last call of handleConfigForm
  boot                 \* the button sampling of setup()

modeVars ==
  <<systemMode, sleepSelectedYes, btnDown, sinceBtnPress, btnActionTaken,
    releasedAfter>>
screenVars == <<currentScreen, sinceScreenSwitch>>
configVars == <<firmwareUrl, currentFirmwareETag>>
otaCheckVars == <<pendingOTA_ETag, sinceOTACheck, httpCheck>>
weatherVars ==
  <<weatherTaskState, weatherValid, sinceWeatherFetch, sinceWeatherTimer,
    weather, weatherResponseBuffer, weatherClient>>
forecastVars ==
  <<forecastTaskState, forecastValid, sinceForecastFetch, forecasts>>

vars ==
  <<pc, hosts, eeprom, wifiMode, modeVars, screenVars, configVars,
    otaCheckVars, weatherVars, forecastVars, tasksMidLoop, ota, settings,
    store, boot>>

(***************************************************************************)
(* Values of the globals before setup() runs                               *)
(***************************************************************************)
WeatherInitial ==
  [temp |-> <<"N", "/", "A">>, cond |-> <<>>, hum |-> <<>>, wind |-> <<>>,
   press |-> <<>>]

WeatherCleared ==
  [temp |-> <<>>, cond |-> <<>>, hum |-> <<>>, wind |-> <<>>, press |-> <<>>]

ClientClosed == [open |-> FALSE, rx |-> <<>>, peerOpen |-> FALSE]

\* the last iteration of loop() saw no release of the button
NoRelease == -1

\* loop() did not come to its screen rotation and its tasks
NoMidLoop == [afterScreen |-> <<>>, afterWeather |-> <<>>]

NoCheck == [ran |-> FALSE, code |-> 0, etag |-> <<>>]

NoOta ==
  [targetETag |-> <<>>, attempt |-> 0, httpCode |-> -1, contentLength |-> -1,
   received |-> 0, updSize |-> 0, updWritten |-> 0, updError |-> FALSE,
   connected |-> FALSE, sinceData |-> 0, outcome |-> "none",
   eepromAtEntry |-> <<>>, modeAtEntry |-> 0,
   weatherIdleAtEntry |-> TRUE, forecastIdleAtEntry |-> TRUE]

(***************************************************************************)
(* Inputs: what is stored at power-on, what the firmware server announces, *)
(* which services can be reached                                           *)
(***************************************************************************)
ETagA == <<97>>
ETagLong == [i \in 1..(ETagMaxLen + 1) |-> 98]
ServerETags == {<<>>, ETagA, ETagLong}

ErasedEeprom == <<>>
ConfiguredNoUrl == EepromWriteBytes(ErasedEeprom, ADDR_SIGNATURE, Signature)
Configured ==
  EepromWriteBytes(ConfiguredNoUrl, ADDR_FIRMWARE_URL, <<1, 117>>)
InitialEeproms == {ErasedEeprom, ConfiguredNoUrl, Configured}
Deployments == {{"weather"}, {"forecast"}, {"firmware"}}

\* connect() to a host succeeds or fails
Reach(host) == IF host \in hosts THEN BOOLEAN ELSE {FALSE}

\* WiFi.status() == WL_CONNECTED as one iteration reads it
LinkStates(mode) == IF mode = "STA" THEN BOOLEAN ELSE {FALSE}

\* no form has been submitted
NoStore ==
  [count |-> 0, kind |-> "none", form |-> SettingsInitial, url |-> <<>>,
   before |-> <<>>, request |-> <<>>]

\* setup() has not sampled the button
NoBoot ==
  [signal |-> {}, elapsed |-> 0, lowCount |-> 0, buttonPressed |-> FALSE,
   done |-> FALSE]

(***************************************************************************)
(* The globals as the C++ initialisers leave them                          *)
(***************************************************************************)
GlobalsInitial ==
  /\ systemMode = MODE_NORMAL
  /\ sleepSelectedYes = FALSE
  /\ btnDown = FALSE
  /\ sinceBtnPress = 0
  /\ btnActionTaken = FALSE
  /\ releasedAfter = NoRelease
  /\ currentScreen = SCREEN_TIME
  /\ sinceScreenSwitch = 0
  /\ firmwareUrl = <<>>
  /\ currentFirmwareETag = <<>>
  /\ pendingOTA_ETag = <<>>
  /\ sinceOTACheck = 0
  /\ httpCheck = NoCheck
  /\ weatherTaskState = "W_IDLE"
  /\ forecastTaskState = "F_IDLE"
  /\ weatherValid = FALSE
  /\ forecastValid = FALSE
  /\ sinceWeatherFetch = 0
  /\ sinceForecastFetch = 0
  /\ sinceWeatherTimer = 0
  /\ weather = WeatherInitial
  /\ weatherResponseBuffer = <<>>
  /\ weatherClient = ClientClosed
  /\ forecasts = <<<<>>, <<>>, <<>>>>
  /\ tasksMidLoop = NoMidLoop
  /\ ota = NoOta
  /\ settings = SettingsInitial
  /\ store = NoStore

Init ==
  /\ pc = "restart"
  /\ hosts \in Deployments
  /\ eeprom \in InitialEeproms
  /\ wifiMode = "OFF"
  /\ boot = NoBoot
  /\ GlobalsInitial

(***************************************************************************)
(* setup()                                                                 *)
(***************************************************************************)
\* the portal is entered at boot when the signature is missing or the
\* button was held
BootConfigMode(e, heldAtBoot) == ~SignatureValid(e) \/ heldAtBoot

\* setup() from line 234 on, buttonPressed being heldAtBoot
SetupFrom(heldAtBoot) ==
  /\ pc = "restart"
  /\ \E joined \in BOOLEAN, fault \in LoadFaults(eeprom) :
       LET sig == SignatureValid(eeprom)
           configMode == BootConfigMode(eeprom, heldAtBoot)
           loaded == sig
           \* the early return of the failed join skips the rest of setup()
           early == ~configMode /\ ~joined
       IN /\ systemMode' = IF configMode THEN MODE_CONFIG ELSE MODE_NORMAL
          /\ wifiMode' = IF configMode \/ ~joined THEN "AP" ELSE "STA"
          /\ firmwareUrl' = IF loaded THEN LoadFirmwareUrl(eeprom) ELSE <<>>
          /\ currentFirmwareETag' = IF loaded THEN LoadETag(eeprom) ELSE <<>>
          /\ sinceOTACheck' =
               IF early THEN 0 ELSE OTAFirstCheckBackdate
          /\ settings' = IF loaded
                          THEN [LoadSettings(eeprom) EXCEPT !.fault = fault]
                          ELSE SettingsInitial
          \* a crash inside loadSettings resets the device
          /\ pc' = IF loaded /\ fault THEN "restart" ELSE "loop"
  /\ sleepSelectedYes' = FALSE
  /\ btnDown' = FALSE
  /\ sinceBtnPress' = 0
  /\ btnActionTaken' = FALSE
  /\ releasedAfter' = NoRelease
  /\ currentScreen' = SCREEN_TIME
  /\ sinceScreenSwitch' = 0
  /\ pendingOTA_ETag' = <<>>
  /\ httpCheck' = NoCheck
  /\ weatherTaskState' = "W_IDLE"
  /\ forecastTaskState' = "F_IDLE"
  /\ weatherValid' = FALSE
  /\ forecastValid' = FALSE
  /\ sinceWeatherFetch' = 0
  /\ sinceForecastFetch' = 0
  /\ sinceWeatherTimer' = 0
  /\ weather' = WeatherInitial
  /\ weatherResponseBuffer' = <<>>
  /\ weatherClient' = ClientClosed
  /\ forecasts' = <<<<>>, <<>>, <<>>>>
  /\ tasksMidLoop' = NoMidLoop
  /\ ota' = NoOta
  /\ UNCHANGED <<hosts, eeprom, store, boot>>

\* setup(), the sampling of the button reduced to its result
Setup == \E heldAtBoot \in BOOLEAN : SetupFrom(heldAtBoot)

(***************************************************************************)
(* loop(): the button                                                      *)
(***************************************************************************)
\* the hold table with the hold in ConfigPortal starting the update at once
HoldActionSkipsUpdatePortal(mode, yes) ==
  CASE mode = MODE_NORMAL ->
         [mode |-> MODE_SLEEP_CONFIRM, yes |-> FALSE, call |-> "none",
          taken |-> TRUE]
    [] mode = MODE_SLEEP_CONFIRM ->
         IF yes
         THEN [mode |-> mode, yes |-> yes, call |-> "enterSleep",
               taken |-> FALSE]   \* enterSleep() does not return
         ELSE [mode |-> MODE_CONFIG, yes |-> yes, call |-> "startConfigPortal",
               taken |-> TRUE]
    [] mode = MODE_CONFIG ->
         [mode |-> MODE_OTA, yes |-> yes, call |-> "startOTAUpdate",
          taken |-> FALSE]
    [] mode = MODE_UPDATE ->
         [mode |-> MODE_OTA, yes |-> yes, call |-> "startOTAUpdate",
          taken |-> FALSE]        \* startOTAUpdate() does not return
    [] OTHER ->
         [mode |-> mode, yes |-> yes, call |-> "none", taken |-> FALSE]

\* the hold table with "No" in SleepConfirm going back to Normal
HoldActionCancelsToNormal(mode, yes) ==
  CASE mode = MODE_NORMAL ->
         [mode |-> MODE_SLEEP_CONFIRM, yes |-> FALSE, call |-> "none",
          taken |-> TRUE]
    [] mode = MODE_SLEEP_CONFIRM ->
         IF yes
         THEN [mode |-> mode, yes |-> yes, call |-> "enterSleep",
               taken |-> FALSE]
         ELSE [mode |-> MODE_NORMAL, yes |-> yes, call |-> "none",
               taken |-> TRUE]
    [] mode = MODE_CONFIG ->
         [mode |-> MODE_UPDATE, yes |-> yes, call |-> "startUpdatePortal",
          taken |-> TRUE]
    [] mode = MODE_UPDATE ->
         [mode |-> MODE_OTA, yes |-> yes, call |-> "startOTAUpdate",
          taken |-> FALSE]
    [] OTHER ->
         [mode |-> mode, yes |-> yes, call |-> "none", taken |-> FALSE]

\* the hold table with the hold in SleepConfirm sleeping whatever is selected
HoldActionIgnoresChoice(mode, yes) ==
  CASE mode = MODE_NORMAL ->
         [mode |-> MODE_SLEEP_CONFIRM, yes |-> FALSE, call |-> "none",
          taken |-> TRUE]
    [] mode = MODE_SLEEP_CONFIRM ->
         [mode |-> mode, yes |-> yes, call |-> "enterSleep", taken |-> FALSE]
    [] mode = MODE_CONFIG ->
         [mode |-> MODE_UPDATE, yes |-> yes, call |-> "startUpdatePortal",
          taken |-> TRUE]
    [] mode = MODE_UPDATE ->
         [mode |-> MODE_OTA, yes |-> yes, call |-> "startOTAUpdate",
          taken |-> FALSE]        \* startOTAUpdate() does not return
    [] OTHER ->
         [mode |-> mode, yes |-> yes, call |-> "none", taken |-> FALSE]

\* the hold action of each mode: the new mode, the new selection, the
\* routine called and whether btnActionTaken is set
HoldAction(mode, yes) ==
  CASE mode = MODE_NORMAL ->
         [mode |-> MODE_SLEEP_CONFIRM, yes |-> FALSE, call |-> "none",
          taken |-> TRUE]
    [] mode = MODE_SLEEP_CONFIRM ->
         IF yes
         THEN [mode |-> mode, yes |-> yes, call |-> "enterSleep",
               taken |-> FALSE]   \* enterSleep() does not return
         ELSE [mode |-> MODE_CONFIG, yes |-> yes, call |-> "startConfigPortal",
               taken |-> TRUE]
    [] mode = MODE_CONFIG ->
         [mode |-> MODE_UPDATE, yes |-> yes, call |-> "startUpdatePortal",
          taken |-> TRUE]
    [] mode = MODE_UPDATE ->
         [mode |-> MODE_OTA, yes |-> yes, call |-> "startOTAUpdate",
          taken |-> FALSE]        \* startOTAUpdate() does not return
    [] OTHER ->
         [mode |-> mode, yes |-> yes, call |-> "none", taken |-> FALSE]

\* the release without the debounce of line 371
ReleaseActionNoDebounce(mode, taken, heldMs) ==
  IF taken THEN "none"
  ELSE CASE mode = MODE_SLEEP_CONFIRM -> "toggle"
         [] mode = MODE_CONFIG -> "restart"
         [] mode = MODE_NORMAL -> "lucky"
         [] mode = MODE_UPDATE -> "restart"
         [] OTHER -> "none"

\* the release without the tests of btnActionTaken
ReleaseActionIgnoresTaken(mode, taken, heldMs) ==
  IF ~(heldMs > DebounceMs) THEN "none"
  ELSE CASE mode = MODE_SLEEP_CONFIRM -> "toggle"
         [] mode = MODE_CONFIG -> "restart"
         [] mode = MODE_NORMAL -> "lucky"
         [] mode = MODE_UPDATE -> "restart"
         [] OTHER -> "none"

\* the release with the branches of Normal and ConfigPortal exchanged
ReleaseActionModesExchanged(mode, taken, heldMs) ==
  IF ~(heldMs > DebounceMs) \/ taken THEN "none"
  ELSE CASE mode = MODE_SLEEP_CONFIRM -> "toggle"
         [] mode = MODE_CONFIG -> "lucky"
         [] mode = MODE_NORMAL -> "restart"
         [] mode = MODE_UPDATE -> "restart"
         [] OTHER -> "none"

\* what a release does, given the mode, whether the hold already acted, and
\* how long the press lasted
ReleaseAction(mode, taken, heldMs) ==
  IF ~(heldMs > DebounceMs) \/ taken THEN "none"
  ELSE CASE mode = MODE_SLEEP_CONFIRM -> "toggle"
         [] mode = MODE_CONFIG -> "restart"
         [] mode = MODE_NORMAL -> "lucky"
         [] mode = MODE_UPDATE -> "restart"
         [] OTHER -> "none"

\* line 337 without the test of btnActionTaken
HoldFiresWhileHeld(heldMs, taken) == heldMs > HoldMs

HoldFires(heldMs, taken) == heldMs > HoldMs /\ ~taken

\* the mode gate without the return of SleepConfirm (lines 411-413)
RunsNormalWorkInSleepConfirm(mode) ==
  mode \in {MODE_NORMAL, MODE_SLEEP_CONFIRM}

\* the mode gate after the button: only Normal mode runs the rest of loop()
RunsNormalWork(mode) == mode = MODE_NORMAL

\* the state startOTAUpdate begins with
OtaCall(target, mode) ==
  [NoOta EXCEPT !.targetETag = target, !.outcome = "running",
                !.eepromAtEntry = eeprom, !.modeAtEntry = mode,
                !.weatherIdleAtEntry = (weatherTaskState = "W_IDLE"),
                !.forecastIdleAtEntry = (forecastTaskState = "F_IDLE")]

(***************************************************************************)
(* enterSleep()                                                            *)
(***************************************************************************)
\* lines 1697-1699 left out: the radio is switched off at once
StillHeldNever(level) == FALSE

\* line 1697: the button that confirmed the sleep is still down
StillHeld(level) == level = "LOW"

\* line 1713: nothing has pulled the pin low
StaysAsleep(level) == level = "HIGH"

\* lines 1697-1701: wait until the button is released, then radio off;
\* one reading of the pin
SleepWaitReleaseAt(level) ==
  /\ pc = "sleep_release"
  /\ IF StillHeld(level)
     THEN UNCHANGED <<pc, wifiMode>>
     ELSE /\ pc' = "sleeping"
          /\ wifiMode' = "OFF"
  /\ UNCHANGED <<hosts, eeprom, modeVars, screenVars, configVars,
                 otaCheckVars, weatherVars, forecastVars, tasksMidLoop, ota>>
  /\ UNCHANGED <<settings, store, boot>>

SleepWaitRelease == \E level \in {"LOW", "HIGH"} : SleepWaitReleaseAt(level)

\* lines 1712-1718: sleep until the button is low, then restart; one reading
\* of the pin
SleepUntilWakeAt(level) ==
  /\ pc = "sleeping"
  /\ pc' = IF StaysAsleep(level) THEN "sleeping" ELSE "restart"
  /\ UNCHANGED <<hosts, eeprom, wifiMode, modeVars, screenVars, configVars,
                 otaCheckVars, weatherVars, forecastVars, tasksMidLoop, ota>>
  /\ UNCHANGED <<settings, store, boot>>

SleepUntilWake == \E level \in {"LOW", "HIGH"} : SleepUntilWakeAt(level)

(***************************************************************************)
(* checkForFirmwareUpdate() and the pending update                         *)
(***************************************************************************)
\* what the firmware server may answer: a status code and an ETag header
\* (code -1: no response at all)
CheckResponses ==
  IF "firmware" \in hosts
  THEN {[ran |-> TRUE, code |-> HTTP_CODE_OK, etag |-> e] : e \in ServerETags}
         \cup {[ran |-> TRUE, code |-> 404, etag |-> ETagA],
               [ran |-> TRUE, code |-> -1, etag |-> <<>>]}
  ELSE {[ran |-> TRUE, code |-> -1, etag |-> <<>>]}

\* lines 1746-1751 with the first observation only recorded, as
\* hu-061.ino did
CheckSchedulesOnlyWhenStored(current, code, newETag) ==
  /\ code = HTTP_CODE_OK
  /\ newETag # <<>>
  /\ current # <<>>
  /\ current # newETag

\* lines 1746-1751 without the comparison with the stored entity tag
CheckSchedulesAnyTag(current, code, newETag) ==
  /\ code = HTTP_CODE_OK
  /\ newETag # <<>>

\* lines 1746-1751: the response raises the pending update request
CheckSchedules(current, code, newETag) ==
  /\ code = HTTP_CODE_OK
  /\ newETag # <<>>
  /\ (current = <<>> \/ current # newETag)

\* line 1722: the check is attempted at all
CheckAttempted(up, url) == up /\ url # <<>>

(***************************************************************************)
(* Screen rotation                                                         *)
(***************************************************************************)
ScreenInterval(screen) ==
  CASE screen = SCREEN_LUCKY -> 10000
    [] screen \in {SCREEN_FORECAST, SCREEN_GREETING} -> 45000
    [] OTHER -> 15000

NextScreen(screen) ==
  IF screen = SCREEN_LUCKY THEN SCREEN_TIME ELSE (screen + 1) % 4

ForecastDue(since, valid) == since > ForecastStaleMs \/ ~valid

\* line 486: the screen switch may start the forecast task
ScreenMayStartForecast(fState, wState) == fState = "F_IDLE" /\ wState = "W_IDLE"

(***************************************************************************)
(* Arduino String operations, on sequences of characters.  Indices are     *)
(* 0-based as in the code, -1 is "not found".                              *)
(***************************************************************************)
WhiteChars == {" ", "\t", "\n", "\r"}
DigitChars == {"0", "1", "2", "3", "4", "5", "6", "7", "8", "9"}

TrimText(s) == TrimRight(TrimLeft(s, WhiteChars), WhiteChars)

\* s.substring(left, right)
Substring(s, left, right) ==
  LET lo == Min(left, right)
      hi == Min(IF left > right THEN left ELSE right, Len(s))
  IN IF lo >= Len(s) THEN <<>> ELSE SubSeq(s, lo + 1, hi)

\* s.substring(left)
SubstringFrom(s, left) == Substring(s, left, Len(s))

StartsWithAt(s, pat, at) ==
  /\ at + Len(pat) <= Len(s)
  /\ \A i \in 1..Len(pat) : s[at + i] = pat[i]

\* s.indexOf(pat, from)
IndexOfFrom(s, pat, from) ==
  LET hits == {i \in 0..(Len(s) - 1) : i >= from /\ StartsWithAt(s, pat, i)}
  IN IF from >= Len(s) \/ hits = {} THEN -1
     ELSE CHOOSE i \in hits : \A j \in hits : i <= j

IndexOf(s, pat) == IndexOfFrom(s, pat, 0)

\* s.replace(pat, "")
RECURSIVE Remove(_, _)
Remove(s, pat) ==
  IF s = <<>> THEN <<>>
  ELSE IF StartsWithAt(s, pat, 0)
       THEN Remove(SubSeq(s, Len(pat) + 1, Len(s)), pat)
       ELSE <<Head(s)>> \o Remove(Tail(s), pat)

EndsWith(s, pat) == Len(pat) <= Len(s) /\ StartsWithAt(s, pat, Len(s) - Len(pat))

DigitValue(c) == CHOOSE v \in 0..9 : ToString(v) = c

\* String(n) for an int n >= 0
RECURSIVE IntToText(_)
IntToText(n) ==
  IF n < 10 THEN <<ToString(n)>> ELSE IntToText(n \div 10) \o <<ToString(n % 10)>>

\* s.toFloat() of a string of digits and dots: the decimal number its longest
\* numeric prefix spells, as n / den
RECURSIVE DecimalPrefix(_, _, _, _)
DecimalPrefix(s, n, den, seenDot) ==
  IF s = <<>> THEN [n |-> n, den |-> den]
  ELSE IF Head(s) \in DigitChars
       THEN DecimalPrefix(Tail(s), 10 * n + DigitValue(Head(s)),
                          IF seenDot THEN 10 * den ELSE den, seenDot)
       ELSE IF Head(s) = "." /\ ~seenDot
            THEN DecimalPrefix(Tail(s), n, den, TRUE)
            ELSE [n |-> n, den |-> den]

ToFloat(s) == DecimalPrefix(s, 0, 1, FALSE)

\* round() of the non-negative rational a / b
RoundRatio(a, b) == (2 * a + b) \div (2 * b)

(***************************************************************************)
(* parseWeatherData()                                                      *)
(***************************************************************************)
HeaderEnd == <<"\r", "\n", "\r", "\n">>

\* lines 1326-1330: the body of the response
WeatherBody(result) ==
  LET bodyPos == IndexOf(result, HeaderEnd)
  IN TrimText(IF bodyPos # -1 THEN SubstringFrom(result, bodyPos + 4)
              ELSE result)

\* lines 1334-1337: the positions of the four separators
PipeIndexes(body) ==
  LET idx1 == IndexOfFrom(body, <<"|">>, 0)
      idx2 == IndexOfFrom(body, <<"|">>, idx1 + 1)
      idx3 == IndexOfFrom(body, <<"|">>, idx2 + 1)
      idx4 == IndexOfFrom(body, <<"|">>, idx3 + 1)
  IN <<idx1, idx2, idx3, idx4>>

\* lines 1331 and 1338: the early returns
ParseReturnsEarly(body) ==
  \/ Len(body) = 0
  \/ \E i \in 1..4 : PipeIndexes(body)[i] < 0

\* lines 1347-1350
CleanTemp(tempStr) ==
  TrimText(Remove(Remove(Remove(tempStr, <<"deg", "C">>), <<"deg">>), <<"C">>))

\* lines 1358-1363
CleanHum(humStr) ==
  LET h == TrimText(humStr)
  IN IF ~EndsWith(h, <<"%">>) THEN h \o <<"%">> ELSE h

\* lines 1366-1374: the digits and dots up to the first space after one
RECURSIVE WindDigits(_, _)
WindDigits(s, acc) ==
  IF s = <<>> THEN acc
  ELSE IF Head(s) \in DigitChars \/ Head(s) = "."
       THEN WindDigits(Tail(s), acc \o <<Head(s)>>)
       ELSE IF Head(s) = " " /\ Len(acc) > 0 THEN acc
            ELSE WindDigits(Tail(s), acc)

\* lines 1375-1382: km/h to rounded m/s (divided by 3.6)
CleanWind(windStr) ==
  LET windNum == WindDigits(windStr, <<>>)
      f == ToFloat(windNum)
  IN IF Len(windNum) = 0 THEN <<"N", "/", "A">>
     ELSE IntToText(RoundRatio(10 * f.n, 36 * f.den))

\* lines 1385-1393: the first run of digits and dots
RECURSIVE PressDigits(_, _)
PressDigits(s, acc) ==
  IF s = <<>> THEN acc
  ELSE IF Head(s) \in DigitChars \/ Head(s) = "."
       THEN PressDigits(Tail(s), acc \o <<Head(s)>>)
       ELSE IF acc # <<>> THEN acc
            ELSE PressDigits(Tail(s), acc)

\* lines 1394-1401: hPa to rounded mmHg (times 0.75006)
CleanPress(pressStr) ==
  LET pressNum == PressDigits(pressStr, <<>>)
      f == ToFloat(pressNum)
  IN IF Len(pressNum) = 0 THEN <<"N", "/", "A">>
     ELSE IntToText(RoundRatio(75006 * f.n, 100000 * f.den))

\* lines 1340-1401: the fields a response with four separators assigns
ParsedFields(body) ==
  LET idx == PipeIndexes(body)
  IN [temp |-> CleanTemp(Substring(body, 0, idx[1])),
      cond |-> TrimText(Substring(body, idx[1] + 1, idx[2])),
      hum |-> CleanHum(Substring(body, idx[2] + 1, idx[3])),
      wind |-> CleanWind(Substring(body, idx[3] + 1, idx[4])),
      press |-> CleanPress(SubstringFrom(body, idx[4] + 1))]

\* parseWeatherData(result): the weather fields afterwards
ParseWeatherData(old, result) ==
  LET body == WeatherBody(result)
  IN IF ParseReturnsEarly(body) THEN old ELSE ParsedFields(body)

(***************************************************************************)
(* handleWeatherTask()                                                     *)
(***************************************************************************)
HttpHeader == <<"H">> \o HeaderEnd

\* what the weather host may send
WeatherResponses ==
  {HttpHeader \o <<"+", "2", "deg", "C", "|", "S", "u", "n", "|", "5", "|",
                   "9", " ", "k", "|", "1", "0", "1", "5">>,
   HttpHeader \o <<"+", "3", "|", " ", "|", "6", "%", "|", "|", "h">>,
   HttpHeader}

\* line 1261 without its last condition: the weather task starts while the
\* forecast task runs
WeatherMayStartUnguarded(since, screen, valid, fState) ==
  since > WeatherStaleMs \/ (screen = SCREEN_WEATHER /\ ~valid)

\* line 1261: the task leaves W_IDLE
WeatherMayStart(since, screen, valid, fState) ==
  /\ (since > WeatherStaleMs \/ (screen = SCREEN_WEATHER /\ ~valid))
  /\ fState = "F_IDLE"

\* lines 1295 and 1316 left out: the states have no deadline
WeatherTimedOutNever(since) == FALSE

\* lines 1295 and 1316: the per-state deadline has passed
WeatherTimedOut(since) == since > TaskTimeoutMs

\* line 1309: the peer has closed and nothing is left to read
WeatherDone(client) == ~client.peerOpen /\ client.rx = <<>>

\* line 1312 with the flag telling whether the fetch left a temperature and
\* a condition
ValidAfterFetchByContent(valid, fields) ==
  fields.temp # <<>> /\ fields.cond # <<>>

\* line 1312: the flag a completed fetch leaves
ValidAfterFetch(valid, fields) == TRUE

(***************************************************************************)
(* handleForecastTask() and parseForecastData()                            *)
(***************************************************************************)
NullDay == [isNull |-> TRUE]

Day(date, minT, maxT, hourly) ==
  [isNull |-> FALSE, date |-> date, mintempC |-> minT, maxtempC |-> maxT,
   hourly |-> hourly]

DayA ==
  Day(<<"2", "4", "-", "0", "1", "-", "0", "2">>, <<"1">>, <<"9">>,
      <<[time |-> 900, desc |-> <<"f", "o", "g">>],
        [time |-> 1200, desc |-> <<"s", "u", "n">>]>>)

DayB ==
  Day(<<"2", "4", "-", "0", "1", "-", "0", "3">>, <<"2">>, <<"8">>,
      <<[time |-> 2100, desc |-> <<"r", "a", "i", "n">>]>>)

\* what the stream may hold: a failed allocation, a JSON error, or the
\* filtered "weather" array
ForecastDocs ==
  {[error |-> "alloc", weather |-> <<>>],
   [error |-> "json", weather |-> <<>>],
   [error |-> "none", weather |-> <<DayA, DayB>>],
   [error |-> "none", weather |-> <<DayA, DayB, DayB>>],
   [error |-> "none", weather |-> <<NullDay, DayA, DayB>>]}

\* lines 1544-1560: the description of the hourly entry at a time of day
RECURSIVE HourlyDesc(_, _, _)
HourlyDesc(hourly, time, acc) ==
  IF hourly = <<>> THEN acc
  ELSE HourlyDesc(Tail(hourly), time,
                  IF Head(hourly).time = time THEN Head(hourly).desc ELSE acc)

\* lines 1531-1571: the line composed for one day
ForecastLine(day) ==
  IF day.isNull THEN <<>>
  ELSE SubstringFrom(day.date, 5) \o <<":", " ">> \o day.mintempC \o <<"/">>
         \o day.maxtempC \o <<"deg", "C">>
         \o <<", Morn: ">> \o HourlyDesc(day.hourly, 900, <<>>)
         \o <<", Noon: ">> \o HourlyDesc(day.hourly, 1200, <<>>)
         \o <<", Aft: ">> \o HourlyDesc(day.hourly, 1500, <<>>)
         \o <<", Eve: ">> \o HourlyDesc(day.hourly, 2100, <<>>)

\* lines 1499-1522: parseForecastData gives up before touching forecasts[]
ForecastRejected(doc) == doc.error # "none" \/ Len(doc.weather) < 3

\* line 1576: the batch is accepted
ForecastAccepted(lines) == Len(lines[1]) > 0

\* line 1425: the task leaves F_IDLE
ForecastMayStart(since, valid, wState) ==
  ForecastDue(since, valid) /\ wState = "W_IDLE"

(***************************************************************************)
(* handleWeatherTask(), one call                                           *)
(***************************************************************************)
\* what the network may do for the task in the state it is in
WeatherInputs(state, link) ==
  CASE state = "W_CONNECTING" /\ link ->
         {[connected |-> c, arrived |-> <<>>, closes |-> FALSE] :
            c \in Reach("weather")}
    [] state = "W_WAIT_HEADER" ->
         {[connected |-> FALSE, arrived |-> <<>>, closes |-> FALSE]} \cup
         {[connected |-> FALSE, arrived |-> r, closes |-> c] :
            r \in WeatherResponses, c \in BOOLEAN}
    [] state = "W_READ_BODY" ->
         {[connected |-> FALSE, arrived |-> <<>>, closes |-> c] :
            c \in BOOLEAN}
    [] OTHER -> {[connected |-> FALSE, arrived |-> <<>>, closes |-> FALSE]}

\* lines 1260-1264
WeatherIdle(w, screen, fState) ==
  IF WeatherMayStart(w.sinceFetch, screen, w.valid, fState)
  THEN [w EXCEPT !.state = "W_CONNECTING"] ELSE w

\* lines 1266-1287
WeatherConnecting(w, in, link) ==
  IF ~link THEN w
  ELSE IF in.connected
  THEN [w EXCEPT !.state = "W_WAIT_HEADER", !.timer = 0, !.buffer = <<>>,
                 !.client = [open |-> TRUE, rx |-> <<>>, peerOpen |-> TRUE]]
  ELSE [w EXCEPT !.state = "W_IDLE", !.sinceFetch = WeatherRetryBackdate]

\* lines 1289-1299
WeatherWaitHeader(w, in) ==
  LET available == in.arrived # <<>>
      timer == IF available THEN 0 ELSE w.timer
  IN IF WeatherTimedOut(timer)
     THEN [w EXCEPT !.state = "W_IDLE", !.timer = 0, !.client = ClientClosed]
     ELSE [w EXCEPT !.state = IF available THEN "W_READ_BODY" ELSE @,
                    !.timer = timer,
                    !.client = [open |-> TRUE, rx |-> in.arrived,
                                peerOpen |-> ~(available /\ in.closes)]]

\* lines 1301-1320
WeatherReadBody(w, in) ==
  LET buffer == w.buffer \o w.client.rx
      client == [w.client EXCEPT !.rx = <<>>, !.peerOpen = @ /\ ~in.closes]
      done == WeatherDone(client)
      fields == IF done THEN ParseWeatherData(w.fields, buffer) ELSE w.fields
      stops == done \/ WeatherTimedOut(w.timer)
  IN [state |-> IF stops THEN "W_IDLE" ELSE "W_READ_BODY",
      valid |-> IF done THEN ValidAfterFetch(w.valid, fields) ELSE w.valid,
      sinceFetch |-> IF done THEN 0 ELSE w.sinceFetch,
      timer |-> IF stops THEN 0 ELSE w.timer,
      fields |-> fields,
      buffer |-> buffer,
      client |-> IF stops THEN ClientClosed ELSE client]

HandleWeatherTask(w, in, link, screen, fState) ==
  CASE w.state = "W_IDLE" -> WeatherIdle(w, screen, fState)
    [] w.state = "W_CONNECTING" -> WeatherConnecting(w, in, link)
    [] w.state = "W_WAIT_HEADER" -> WeatherWaitHeader(w, in)
    [] OTHER -> WeatherReadBody(w, in)

(***************************************************************************)
(* handleForecastTask(), one call                                          *)
(***************************************************************************)
NoDoc == [error |-> "none", weather |-> <<>>]

ForecastInputs(state, link) ==
  IF state = "F_CONNECTING" /\ link /\ "forecast" \in hosts
  THEN {[connected |-> FALSE, headerFound |-> FALSE, doc |-> NoDoc],
        [connected |-> TRUE, headerFound |-> FALSE, doc |-> NoDoc]} \cup
       {[connected |-> TRUE, headerFound |-> TRUE, doc |-> d] :
          d \in ForecastDocs}
  ELSE {[connected |-> FALSE, headerFound |-> FALSE, doc |-> NoDoc]}

\* lines 1424-1428
ForecastIdle(f, wState) ==
  IF ForecastMayStart(f.sinceFetch, f.valid, wState)
  THEN [f EXCEPT !.state = "F_CONNECTING"] ELSE f

\* lines 1430-1476 with a failed cycle staying in F_CONNECTING to try again
ForecastConnectingHoldsOn(f, in, link) ==
  IF ~link \/ ~in.connected \/ ~in.headerFound \/ ForecastRejected(in.doc)
  THEN [f EXCEPT !.state = "F_CONNECTING",
                 !.sinceFetch = ForecastRetryBackdate]
  ELSE LET lines == [i \in 1..3 |-> ForecastLine(in.doc.weather[i])]
       IN [state |-> "F_IDLE",
           valid |-> (f.valid \/ ForecastAccepted(lines)),
           sinceFetch |-> IF ForecastAccepted(lines) THEN 0
                          ELSE ForecastRetryBackdate,
           lines |-> lines]

\* lines 1430-1476 with parseForecastData: the whole blocking fetch
ForecastConnecting(f, in, link) ==
  IF ~link \/ ~in.connected \/ ~in.headerFound \/ ForecastRejected(in.doc)
  THEN [f EXCEPT !.state = "F_IDLE", !.sinceFetch = ForecastRetryBackdate]
  ELSE LET lines == [i \in 1..3 |-> ForecastLine(in.doc.weather[i])]
       IN [state |-> "F_IDLE",
           valid |-> (f.valid \/ ForecastAccepted(lines)),
           sinceFetch |-> IF ForecastAccepted(lines) THEN 0
                          ELSE ForecastRetryBackdate,
           lines |-> lines]

HandleForecastTask(f, in, link, wState) ==
  CASE f.state = "F_IDLE" -> ForecastIdle(f, wState)
    [] f.state = "F_CONNECTING" -> ForecastConnecting(f, in, link)
    [] OTHER -> [f EXCEPT !.state = "F_IDLE"]   \* lines 1480-1483

(***************************************************************************)
(* loop(), one iteration                                                   *)
(***************************************************************************)
\* lines 331-401: the button, sampled d milliseconds after the last sample
ButtonStep(d, level) ==
  LET heldMs == IF btnDown THEN Later(sinceBtnPress, d, ButtonGrid) ELSE 0
      taken == btnDown /\ btnActionTaken
      act == HoldAction(systemMode, sleepSelectedYes)
      rel == IF btnDown THEN ReleaseAction(systemMode, taken, heldMs)
             ELSE "none"
  IN IF level = "LOW"
     THEN IF HoldFires(heldMs, taken)
          THEN [mode |-> act.mode, yes |-> act.yes, down |-> TRUE,
                since |-> heldMs, taken |-> act.taken, call |-> act.call,
                released |-> NoRelease]
          ELSE [mode |-> systemMode, yes |-> sleepSelectedYes, down |-> TRUE,
                since |-> heldMs, taken |-> taken, call |-> "none",
                released |-> NoRelease]
     ELSE [mode |-> systemMode,
           yes |-> IF rel = "toggle" THEN ~sleepSelectedYes
                   ELSE sleepSelectedYes,
           down |-> FALSE, since |-> 0,
           taken |-> IF btnDown THEN FALSE ELSE btnActionTaken,
           call |-> rel,
           released |-> IF btnDown THEN heldMs ELSE NoRelease]

\* lines 403-417: the iteration ends before the Normal-mode work; the
\* timestamps of that work are read in Normal mode only
LoopParked ==
  /\ sinceScreenSwitch' = 0
  /\ sinceOTACheck' = 0
  /\ sinceWeatherFetch' = 0
  /\ sinceForecastFetch' = 0
  /\ sinceWeatherTimer' = 0
  /\ httpCheck' = NoCheck
  /\ tasksMidLoop' = NoMidLoop
  /\ UNCHANGED <<currentScreen, pendingOTA_ETag, weatherTaskState,
                 weatherValid, weather, weatherResponseBuffer, weatherClient,
                 forecastTaskState, forecastValid, forecasts>>

\* lines 470-491: screen rotation, which may start the forecast task
ScreenStep(screen, sinceSwitch, fDue, fState, wState) ==
  IF sinceSwitch > ScreenInterval(screen)
  THEN [screen |-> NextScreen(screen), sinceSwitch |-> 0,
        fState |-> IF /\ NextScreen(screen) = SCREEN_FORECAST
                      /\ fDue
                      /\ ScreenMayStartForecast(fState, wState)
                   THEN "F_CONNECTING" ELSE fState]
  ELSE [screen |-> screen, sinceSwitch |-> sinceSwitch, fState |-> fState]

\* the weather timer runs while a response is awaited
TimerRuns(state) == state \in {"W_WAIT_HEADER", "W_READ_BODY"}

\* lines 470-495: screen rotation and the two tasks
LoopTasks(d, lucky, link) ==
  LET sinceF == Later(sinceForecastFetch, d, ForecastGrid)
      s == ScreenStep(IF lucky THEN SCREEN_LUCKY ELSE currentScreen,
                      IF lucky THEN 0
                      ELSE Later(sinceScreenSwitch, d, ScreenGrid),
                      ForecastDue(sinceF, forecastValid),
                      forecastTaskState, weatherTaskState)
      w0 == [state |-> weatherTaskState,
             valid |-> weatherValid,
             sinceFetch |-> Later(sinceWeatherFetch, d, WeatherGrid),
             timer |-> IF TimerRuns(weatherTaskState)
                       THEN Later(sinceWeatherTimer, d, TimeoutGrid) ELSE 0,
             fields |-> weather,
             buffer |-> weatherResponseBuffer,
             client |-> weatherClient]
      f0 == [state |-> s.fState, valid |-> forecastValid,
             sinceFetch |-> sinceF, lines |-> forecasts]
  IN \E wi \in WeatherInputs(weatherTaskState, link) :
       \E w \in {HandleWeatherTask(w0, wi, link, s.screen, s.fState)} :
         \E fi \in ForecastInputs(s.fState, link) :
           \E f \in {HandleForecastTask(f0, fi, link, w.state)} :
               /\ currentScreen' = s.screen
               /\ sinceScreenSwitch' = s.sinceSwitch
               /\ weatherTaskState' = w.state
               /\ weatherValid' = w.valid
               /\ sinceWeatherFetch' = w.sinceFetch
               /\ sinceWeatherTimer' = w.timer
               /\ weather' = w.fields
               /\ weatherResponseBuffer' = w.buffer
               /\ weatherClient' = w.client
               /\ forecastTaskState' = f.state
               /\ forecastValid' = f.valid
               /\ sinceForecastFetch' = f.sinceFetch
               /\ forecasts' = f.lines
               /\ tasksMidLoop' =
                    [afterScreen |-> <<weatherTaskState, s.fState>>,
                     afterWeather |-> <<w.state, s.fState>>]
               /\ pc' = "loop"
               /\ ota' = ota

\* lines 464-468: a scheduled update starts
StartsPending(pending) == pending # <<>>

\* lines 464-468 taken: startOTAUpdate(pendingOTA_ETag) is entered and the
\* rest of the iteration never runs
LoopStartsUpdate(d, lucky, pending) ==
  /\ pc' = "ota_entry"
  /\ ota' = OtaCall(pending, systemMode)
  /\ tasksMidLoop' = NoMidLoop
  /\ currentScreen' = IF lucky THEN SCREEN_LUCKY ELSE currentScreen
  /\ sinceScreenSwitch' =
       IF lucky THEN 0 ELSE Later(sinceScreenSwitch, d, ScreenGrid)
  /\ sinceWeatherFetch' = Later(sinceWeatherFetch, d, WeatherGrid)
  /\ sinceForecastFetch' = Later(sinceForecastFetch, d, ForecastGrid)
  /\ sinceWeatherTimer' =
       IF TimerRuns(weatherTaskState)
       THEN Later(sinceWeatherTimer, d, TimeoutGrid) ELSE 0
  /\ UNCHANGED <<weatherTaskState, weatherValid, weather,
                 weatherResponseBuffer, weatherClient, forecastTaskState,
                 forecastValid, forecasts>>

\* lines 419-495: the Normal-mode work
LoopNormal(d, lucky) ==
  \E link \in LinkStates(wifiMode) :
    LET sinceCheck == Later(sinceOTACheck, d, CheckGrid)
        due == sinceCheck > OTACheckMs
        attempted == due /\ CheckAttempted(link, firmwareUrl)
    IN \E r \in (IF attempted THEN CheckResponses ELSE {NoCheck}) :
         LET pending ==
               IF attempted
                    /\ CheckSchedules(currentFirmwareETag, r.code, r.etag)
               THEN r.etag ELSE pendingOTA_ETag
         IN /\ httpCheck' = r
            /\ sinceOTACheck' = IF due THEN 0 ELSE sinceCheck
            /\ pendingOTA_ETag' = pending
            /\ IF StartsPending(pending)
               THEN LoopStartsUpdate(d, lucky, pending)
               ELSE LoopTasks(d, lucky, link)

Loop ==
  /\ pc = "loop"
  /\ \E d \in Deltas, level \in {"LOW", "HIGH"} :
       \E b \in {ButtonStep(d, level)} :
          /\ systemMode' = b.mode
          /\ sleepSelectedYes' = b.yes
          /\ btnDown' = b.down
          /\ sinceBtnPress' = b.since
          /\ btnActionTaken' = b.taken
          /\ releasedAfter' = b.released
          /\ CASE b.call = "enterSleep" ->
                    /\ pc' = "sleep_release"
                    /\ LoopParked
                    /\ UNCHANGED <<wifiMode, ota>>
               [] b.call = "startOTAUpdate" ->
                    /\ pc' = "ota_entry"
                    /\ ota' = OtaCall(<<>>, b.mode)
                    /\ LoopParked
                    /\ UNCHANGED wifiMode
               [] b.call = "restart" ->
                    /\ pc' = "restart"
                    /\ LoopParked
                    /\ UNCHANGED <<wifiMode, ota>>
               [] b.call = "startConfigPortal" ->
                    /\ pc' = "loop"
                    /\ wifiMode' = "AP"
                    /\ LoopParked
                    /\ UNCHANGED ota
               [] OTHER ->
                    IF RunsNormalWork(b.mode)
                    THEN /\ LoopNormal(d, b.call = "lucky")
                         /\ UNCHANGED wifiMode
                    ELSE /\ pc' = "loop"
                         /\ LoopParked
                         /\ UNCHANGED <<wifiMode, ota>>
  /\ UNCHANGED <<hosts, eeprom, configVars>>
  /\ UNCHANGED <<settings, store, boot>>

(***************************************************************************)
(* startOTAUpdate(targetETag)                                              *)
(***************************************************************************)
\* how long one pass of the download loop may take
StreamDeltas == {60, 15001}

\* Content-Length as http.getSize() reports it: -1 when none is declared
ContentLengths == -1..(MaxSketchSpace + 1)

\* ESP.restart() out of startOTAUpdate
OtaRestart(outcome) ==
  /\ pc' = "restart"
  /\ ota' = [ota EXCEPT !.outcome = outcome]

\* lines 1780-1838: free the buffers, join the network, need a URL
OtaEntry ==
  /\ pc = "ota_entry"
  /\ weather' = WeatherCleared
  /\ weatherResponseBuffer' = <<>>
  /\ weatherClient' = ClientClosed
  /\ forecasts' = <<<<>>, <<>>, <<>>>>
  /\ \E link \in LinkStates(wifiMode), joined \in BOOLEAN :
       IF ~link /\ ~joined
       THEN /\ OtaRestart("wifi")
            /\ wifiMode' = "STA"
       ELSE /\ wifiMode' = IF link THEN wifiMode ELSE "STA"
            /\ IF firmwareUrl = <<>>
               THEN OtaRestart("nourl")
               ELSE /\ pc' = "ota_connect"
                    /\ ota' = ota
  /\ UNCHANGED <<hosts, eeprom, tasksMidLoop>>
  \* startOTAUpdate never returns: what only loop() reads is read no more
  /\ btnDown' = FALSE
  /\ sinceBtnPress' = 0
  /\ btnActionTaken' = FALSE
  /\ releasedAfter' = NoRelease
  /\ sinceScreenSwitch' = 0
  /\ sinceOTACheck' = 0
  /\ httpCheck' = NoCheck
  /\ sinceWeatherFetch' = 0
  /\ sinceWeatherTimer' = 0
  /\ sinceForecastFetch' = 0
  /\ UNCHANGED <<systemMode, sleepSelectedYes, currentScreen, configVars,
                 pendingOTA_ETag, weatherTaskState, weatherValid,
                 forecastTaskState, forecastValid>>
  \* lines 1795-1798: the strings the update does not need
  /\ settings' = [settings EXCEPT !.city = <<>>, !.greetingUrl = <<>>,
                                  !.luckyImageUrl = <<>>]
  /\ UNCHANGED <<store, boot>>

\* what http.GET() may return
FirmwareCodes ==
  IF "firmware" \in hosts THEN {HTTP_CODE_OK, 404, -1} ELSE {-1}

\* line 1850 with `attempt <= 3`
OtaRetriesOnceMore(attempt) == attempt <= OTAAttempts

\* line 1850: another attempt is made
OtaRetries(attempt) == attempt < OTAAttempts

\* lines 1850-1889: one connection attempt
OtaAttempt ==
  /\ pc = "ota_connect"
  /\ \E allocated \in BOOLEAN, code \in FirmwareCodes :
       IF ~allocated
       THEN OtaRestart("oom")
       ELSE IF code = HTTP_CODE_OK
       THEN /\ pc' = "ota_begin"
            /\ ota' = [ota EXCEPT !.httpCode = code, !.connected = TRUE]
       ELSE IF OtaRetries(ota.attempt + 1)
       THEN /\ pc' = "ota_connect"
            /\ ota' = [ota EXCEPT !.httpCode = code, !.attempt = @ + 1]
       ELSE /\ pc' = "restart"
            /\ ota' = [ota EXCEPT !.httpCode = code, !.attempt = @ + 1,
                                  !.outcome = "http"]
  /\ UNCHANGED <<hosts, eeprom, wifiMode, modeVars, screenVars,
                 configVars, otaCheckVars, weatherVars, forecastVars,
                 tasksMidLoop>>
  /\ UNCHANGED <<settings, store, boot>>

\* line 1893: the space reserved in the flash write target
UpdateSize(contentLength) ==
  IF contentLength > 0 THEN contentLength ELSE MaxSketchSpace

\* Update.begin(size)
UpdateBegins(size, flashOk) == size > 0 /\ size <= MaxSketchSpace /\ flashOk

\* lines 1891-1908
OtaBegin ==
  /\ pc = "ota_begin"
  /\ \E contentLength \in ContentLengths, flashOk \in BOOLEAN :
       IF ~UpdateBegins(UpdateSize(contentLength), flashOk)
       THEN /\ pc' = "restart"
            /\ ota' = [ota EXCEPT !.contentLength = contentLength,
                                  !.outcome = "begin"]
       ELSE /\ pc' = "ota_stream"
            /\ ota' = [ota EXCEPT !.contentLength = contentLength,
                                  !.updSize = UpdateSize(contentLength),
                                  !.sinceData = 0]
  /\ UNCHANGED <<hosts, eeprom, wifiMode, modeVars, screenVars,
                 configVars, otaCheckVars, weatherVars, forecastVars,
                 tasksMidLoop>>
  /\ UNCHANGED <<settings, store, boot>>

\* Update.write(buff, c) accepts the chunk
UpdateWrites(o, c, flashOk) ==
  ~o.updError /\ o.updWritten + c <= o.updSize /\ flashOk

\* line 1941 left out: the download loop has no deadline
OtaStalledNever(since) == FALSE

\* line 1941: no data for too long
OtaStalled(since) == since > OTAStallMs

\* line 1953: the declared length has been received
OtaGotAll(contentLength, received) ==
  contentLength > 0 /\ received >= contentLength

\* lines 1910-1954: one pass of the download loop, d ms after the last one,
\* that finds size bytes available and the peer closing or not
OtaStreamPass(d, size, closes) ==
  /\ pc = "ota_stream"
  /\ \E flashOk \in BOOLEAN :
       IF size > 0
       THEN IF ~UpdateWrites(ota, size, flashOk)
            THEN /\ pc' = "ota_verify"
                 /\ ota' = [ota EXCEPT !.updError = TRUE, !.sinceData = 0]
            ELSE LET o == [ota EXCEPT !.received = @ + size,
                                      !.updWritten = @ + size,
                                      !.sinceData = 0]
                     leaves == OtaGotAll(o.contentLength, o.received) \/ closes
                 IN /\ ota' = [o EXCEPT !.connected = ~leaves]
                    /\ pc' = IF leaves THEN "ota_verify" ELSE "ota_stream"
       ELSE IF OtaStalled(Later(ota.sinceData, d, TimeoutGrid))
            THEN OtaRestart("timeout")
            ELSE LET leaves == OtaGotAll(ota.contentLength, ota.received)
                                 \/ closes
                 IN /\ ota' = [ota EXCEPT
                                !.sinceData = IF leaves THEN 0
                                              ELSE Later(@, d, TimeoutGrid),
                                !.connected = ~leaves]
                    /\ pc' = IF leaves THEN "ota_verify" ELSE "ota_stream"
  /\ UNCHANGED <<hosts, eeprom, wifiMode, modeVars, screenVars,
                 configVars, otaCheckVars, weatherVars, forecastVars,
                 tasksMidLoop>>
  /\ UNCHANGED <<settings, store, boot>>

OtaStream ==
  \E d \in StreamDeltas, size \in 0..MaxChunk, closes \in BOOLEAN :
    OtaStreamPass(d, size, closes)

\* line 1957 left out: no comparison with the declared length
SizeNeverCompared(contentLength, received) == FALSE

\* line 1957: the integrity check before committing
SizeMismatch(contentLength, received) ==
  contentLength > 0 /\ received # contentLength

\* Update.end(evenIfRemaining)
UpdateEnds(o, evenIfRemaining, imageOk) ==
  /\ ~o.updError
  /\ (o.updWritten = o.updSize \/ evenIfRemaining)
  /\ imageOk

\* the identifier written whatever Update.end() returned
PersistsBeforeEnd(target, ended) == target # <<>>

\* the identifier never written
PersistsNever(target, ended) == FALSE

\* lines 1971-1972: the identifier is persisted
PersistsETag(target, ended) == ended /\ target # <<>>

\* lines 1956-1995: verify, finalise, persist the identifier, restart
OtaVerify ==
  /\ pc = "ota_verify"
  /\ \E imageOk \in BOOLEAN :
       LET mismatch == SizeMismatch(ota.contentLength, ota.received)
           ended == /\ ~mismatch
                    /\ UpdateEnds(ota, ota.contentLength = -1, imageOk)
       IN /\ eeprom' = IF PersistsETag(ota.targetETag, ended)
                        THEN StoreETag(eeprom, ota.targetETag) ELSE eeprom
          /\ OtaRestart(IF mismatch THEN "incomplete"
                        ELSE IF ended THEN "success" ELSE "failed")
  /\ UNCHANGED <<hosts, wifiMode, modeVars, screenVars, configVars,
                 otaCheckVars, weatherVars, forecastVars, tasksMidLoop>>
  /\ UNCHANGED <<settings, store, boot>>

(***************************************************************************)
(* The device                                                              *)
(***************************************************************************)
Next ==
  \/ Setup
  \/ Loop
  \/ SleepWaitRelease
  \/ SleepUntilWake
  \/ OtaEntry
  \/ OtaAttempt
  \/ OtaBegin
  \/ OtaStream
  \/ OtaVerify

Spec == Init /\ [][Next]_vars

(***************************************************************************)
(* The device where both the weather service and the firmware server       *)
(* accept connections, observed until an update starts                     *)
(***************************************************************************)
ServicesInit ==
  /\ pc = "restart"
  /\ hosts = {"weather", "firmware"}
  /\ eeprom = Configured
  /\ wifiMode = "OFF"
  /\ boot = NoBoot
  /\ GlobalsInitial

ServicesNext ==
  \/ Setup
  \/ Loop
  \/ SleepWaitRelease
  \/ SleepUntilWake

ServicesSpec == ServicesInit /\ [][ServicesNext]_vars

\* the same device where wttr.in cannot be reached: the weather and forecast
\* peers never answer
OfflineInit ==
  /\ pc = "restart"
  /\ hosts = {"firmware"}
  /\ eeprom = Configured
  /\ wifiMode = "OFF"
  /\ boot = NoBoot
  /\ GlobalsInitial

\* the core calls loop() again whenever it has returned
OfflineSpec == OfflineInit /\ [][ServicesNext]_vars /\ WF_vars(Loop)

\* The device with a firmware server in reach, observed until its updates
\* end.  startOTAUpdate is straight-line code around two loops, so each of
\* its steps is taken once control is there; the passes of the download loop
\* that find no data and the peer still connected each wait 1 ms (line 1949),
\* so that enough of them amount to a pass that finds as much time gone as
\* StreamDeltas allows.
OtaSpec ==
  /\ OfflineInit
  /\ [][Next]_vars
  /\ WF_vars(OtaEntry)
  /\ WF_vars(OtaAttempt)
  /\ WF_vars(OtaBegin)
  /\ WF_vars(OtaStreamPass(SetMax(StreamDeltas), 0, FALSE))
  /\ WF_vars(OtaVerify)

(***************************************************************************)
(* The configuration portal: the forms a client submits, a power loss      *)
(* while a form is being saved, and the next boots                         *)
(***************************************************************************)
MaxSaves == 1

Bytes(n, b) == [i \in 1..n |-> b]

\* the data bytes of the SSID region: its 70 bytes less the length byte
NameRoom == ADDR_PASS - ADDR_SSID - 1

\* server.arg() of ssid, pass, city, greeting, firmware, lucky_img and tz
FormPlain ==
  [ssid |-> <<104>>, pass |-> <<112>>, city |-> <<99>>, greeting |-> <<103>>,
   firmware |-> <<1, 117>>, lucky |-> <<108>>, tz |-> <<55>>]
FormFullSsid ==
  [FormPlain EXCEPT !.ssid = Bytes(NameRoom, 115), !.pass = <<>>,
                    !.tz = <<45, 53>>]
FormLongSsid ==
  [FormPlain EXCEPT !.ssid = Bytes(NameRoom + 1, 115), !.pass = <<112, 119>>]
FormOverlongSsid == [FormPlain EXCEPT !.ssid = Bytes(NameBuf, 115)]
FormNoCity == [FormPlain EXCEPT !.city = <<>>]
\* every string as long as a uint8_t length can tell
FormLongest ==
  [FormPlain EXCEPT !.ssid = Bytes(EraseByte, 115), !.pass = Bytes(EraseByte, 112),
                    !.city = Bytes(EraseByte, 99),
                    !.greeting = Bytes(EraseByte, 103),
                    !.firmware = Bytes(EraseByte, 117),
                    !.lucky = Bytes(EraseByte, 108)]
Forms ==
  {FormPlain, FormFullSsid, FormLongSsid, FormOverlongSsid, FormNoCity,
   FormLongest, [FormPlain EXCEPT !.ssid = <<>>],
   [FormPlain EXCEPT !.tz = <<>>]}

\* line 647 asking for the SSID only
FormValidSsidOnly(form) == Len(form.ssid) > 0

\* line 647: the fields that must be filled in
FormValid(form) ==
  Len(form.ssid) > 0 /\ Len(form.city) > 0 /\ Len(form.tz) > 0

\* lines 648-659: the globals after the assignments
FormSettings(form) ==
  [wifiSSID |-> form.ssid, wifiPass |-> form.pass, city |-> form.city,
   greetingUrl |-> form.greeting, luckyImageUrl |-> form.lucky,
   timezoneOffset |-> ToInt(form.tz), fault |-> FALSE]

\* the server answers requests in the modes in which loop() calls
\* server.handleClient(), once startConfigPortal() has started it
PortalServes ==
  /\ pc = "loop"
  /\ systemMode \in {MODE_CONFIG, MODE_UPDATE}
  /\ wifiMode = "AP"
  /\ store.count < MaxSaves

\* handleConfigForm: a valid form is saved and the device restarts, an
\* invalid one is answered with 400
HandleConfigForm ==
  /\ PortalServes
  /\ \E form \in Forms :
       IF FormValid(form)
       THEN /\ settings' = FormSettings(form)
            /\ firmwareUrl' = form.firmware
            /\ eeprom' = SaveSettings(eeprom, FormSettings(form), form.firmware)
            /\ store' = [count |-> store.count + 1, kind |-> "saved",
                         form |-> FormSettings(form), url |-> form.firmware,
                         before |-> eeprom, request |-> form]
            /\ pc' = "restart"
       ELSE /\ store' = [store EXCEPT !.kind = "rejected", !.request = form]
            /\ UNCHANGED <<settings, firmwareUrl, eeprom, pc>>
  /\ UNCHANGED <<hosts, wifiMode, modeVars, screenVars, currentFirmwareETag,
                 otaCheckVars, weatherVars, forecastVars, tasksMidLoop, ota,
                 boot>>

\* the power fails while handleConfigForm is inside saveSettings
PowerLossDuringSave ==
  /\ PortalServes
  /\ \E form \in {f \in Forms : FormValid(f)} :
       \E flash \in InterruptedCommits(
                      eeprom,
                      SaveSettings(eeprom, FormSettings(form), form.firmware)) :
         /\ settings' = FormSettings(form)
         /\ firmwareUrl' = form.firmware
         /\ eeprom' = flash
         /\ store' = [count |-> store.count + 1, kind |-> "interrupted",
                      form |-> FormSettings(form), url |-> form.firmware,
                      before |-> eeprom, request |-> form]
         /\ pc' = "restart"
  /\ UNCHANGED <<hosts, wifiMode, modeVars, screenVars, currentFirmwareETag,
                 otaCheckVars, weatherVars, forecastVars, tasksMidLoop, ota,
                 boot>>

\* the device is switched off and on
PowerCycle ==
  /\ pc = "loop"
  /\ pc' = "restart"
  /\ UNCHANGED <<hosts, eeprom, wifiMode, modeVars, screenVars, configVars,
                 otaCheckVars, weatherVars, forecastVars, tasksMidLoop, ota,
                 settings, store, boot>>

ConfigInit ==
  /\ pc = "restart"
  /\ hosts = {"weather"}
  /\ eeprom \in InitialEeproms
  /\ wifiMode = "OFF"
  /\ boot = NoBoot
  /\ GlobalsInitial

ConfigNext ==
  \/ Setup
  \/ HandleConfigForm
  \/ PowerLossDuringSave
  \/ PowerCycle

ConfigSpec == ConfigInit /\ [][ConfigNext]_vars

\* the same portal on a device that has installed an update before: the
\* entity-tag region holds what startOTAUpdate persisted
UpdatedEeproms ==
  {StoreETag(Configured, tag) : tag \in ServerETags \ {<<>>}}

ReconfigInit ==
  /\ pc = "restart"
  /\ hosts = {"weather"}
  /\ eeprom \in UpdatedEeproms
  /\ wifiMode = "OFF"
  /\ boot = NoBoot
  /\ GlobalsInitial

ReconfigSpec == ReconfigInit /\ [][ConfigNext]_vars

(***************************************************************************)
(* The boot: the button sampling of setup() (lines 216-233) step by step,  *)
(* for a button that is low during given intervals [from, to) of the time  *)
(* since startTime, in milliseconds                                        *)
(***************************************************************************)
ButtonSignals ==
  {{}, {<<0, 600>>}, {<<0, 100>>}, {<<0, 101>>}, {<<5, 106>>},
   {<<100, 250>>}, {<<395, 600>>}, {<<390, 600>>},
   {<<0, 60>>, <<70, 130>>}, {<<200, 205>>}}

\* digitalRead(BUTTON_PIN) == LOW at time t
PinLow(signal, t) == \E iv \in signal : iv[1] <= t /\ t < iv[2]

\* line 227 with ten low samples being enough
BootButtonHeldAtTen(lowCount) == lowCount >= BootLowCount

\* line 227
BootButtonHeld(lowCount) == lowCount > BootLowCount

\* one iteration of the while loop of line 220
BootSample ==
  /\ pc = "restart"
  /\ ~boot.done
  /\ boot.elapsed < BootWindowMs
  /\ LET count == IF PinLow(boot.signal, boot.elapsed)
                  THEN boot.lowCount + 1 ELSE 0
     IN boot' = [boot EXCEPT !.lowCount = count,
                             !.elapsed = @ + BootSampleMs,
                             !.buttonPressed = BootButtonHeld(count),
                             !.done = BootButtonHeld(count)]
  /\ UNCHANGED <<pc, hosts, eeprom, wifiMode, modeVars, screenVars,
                 configVars, otaCheckVars, weatherVars, forecastVars,
                 tasksMidLoop, ota, settings, store>>

\* the window is over without a break
BootWindowEnds ==
  /\ pc = "restart"
  /\ ~boot.done
  /\ boot.elapsed >= BootWindowMs
  /\ boot' = [boot EXCEPT !.done = TRUE]
  /\ UNCHANGED <<pc, hosts, eeprom, wifiMode, modeVars, screenVars,
                 configVars, otaCheckVars, weatherVars, forecastVars,
                 tasksMidLoop, ota, settings, store>>

\* the rest of setup()
BootSetup ==
  /\ boot.done
  /\ SetupFrom(boot.buttonPressed)

BootInit ==
  /\ pc = "restart"
  /\ hosts = {"weather"}
  /\ eeprom \in InitialEeproms
  /\ wifiMode = "OFF"
  /\ \E signal \in ButtonSignals : boot = [NoBoot EXCEPT !.signal = signal]
  /\ GlobalsInitial

BootNext ==
  \/ BootSample
  \/ BootWindowEnds
  \/ BootSetup

BootSpec == BootInit /\ [][BootNext]_vars

(***************************************************************************)
(* Properties                                                              *)
(***************************************************************************)
\* a step of loop() in which the hold action fires: the button is low, has
\* been low for more than 2000 ms, and no action was taken for this press
HoldFired ==
  /\ pc = "loop"
  /\ btnDown'
  /\ sinceBtnPress' > HoldMs
  /\ ~(btnDown /\ btnActionTaken)

\* the outcomes with which startOTAUpdate gives up
OtaFailures ==
  {"wifi", "nourl", "oom", "http", "begin", "timeout", "incomplete", "failed"}

\* the entity tag the length byte and the bytes after it hold
StoredETag(e) ==
  EepromReadBytes(e, ADDR_ETAG + 1, EepromRead(e, ADDR_ETAG))

\* the first n bytes of s
FirstBytes(s, n) == SubSeq(s, 1, IF Len(s) < n THEN Len(s) ELSE n)

\* a response whose record the validation of the weather snapshot rejects:
\* nothing to parse, or an empty temperature or condition
RecordRejected(result) ==
  LET body == WeatherBody(result)
  IN \/ ParseReturnsEarly(body)
     \/ ParsedFields(body).temp = <<>>
     \/ ParsedFields(body).cond = <<>>

\* a step of loop() in which the weather task leaves W_READ_BODY
WeatherCycleEnds ==
  /\ pc = "loop"
  /\ weatherTaskState = "W_READ_BODY"
  /\ weatherTaskState' = "W_IDLE"

\* C1: in every reachable state, those between the steps of loop() included,
\* at most one of weatherTaskState and forecastTaskState is other than idle.
C1_OneTaskAtATime ==
  /\ weatherTaskState = "W_IDLE" \/ forecastTaskState = "F_IDLE"
  /\ \A at \in {tasksMidLoop.afterScreen, tasksMidLoop.afterWeather} :
       at # <<>> => (at[1] = "W_IDLE" \/ at[2] = "F_IDLE")

\* the forecast task runs while the weather snapshot is due for a fetch
C1_Witness ==
  /\ pc = "loop"
  /\ forecastTaskState = "F_CONNECTING"
  /\ (sinceWeatherFetch > WeatherStaleMs
        \/ (currentScreen = SCREEN_WEATHER /\ ~weatherValid))

\* C2 (amended): the update is finalised, and so the identifier persisted and
\* the device restarted in the success state, only if the response declared
\* no positive content length or the bytes received equal the declared
\* length.
C2_CommitNeedsDeclaredBytes ==
  ota.outcome \in {"success", "failed"} =>
    (ota.contentLength > 0 => ota.received = ota.contentLength)

\* a download of declared length ends in the success state with its
\* identifier persisted
C2_Witness ==
  /\ pc = "restart"
  /\ ota.outcome = "success"
  /\ ota.contentLength > 0
  /\ ota.received = ota.contentLength
  /\ ota.targetETag # <<>>

\* C2 as stated: the success state is reached only if the bytes received
\* equal the declared content length.
C2_AsStated ==
  ota.outcome = "success" => ota.received = ota.contentLength

\* C3: every outcome of startOTAUpdate other than success ends in a restart
\* with the bytes of the persisted entity tag as they were when the update
\* started.
C3_FailureKeepsETag ==
  /\ ota.outcome \in OtaFailures =>
       /\ pc = "restart"
       /\ ETagRegion(eeprom) = ETagRegion(ota.eepromAtEntry)
  /\ pc \in {"loop", "sleep_release", "sleeping"} =>
       ota.outcome = "none"

\* an update with an identifier to persist fails at its last step
C3_Witness ==
  /\ pc = "restart"
  /\ ota.outcome \in {"incomplete", "failed"}
  /\ ota.targetETag # <<>>
  /\ ota.received > 0

\* C4 (amended): a successful update started from the pending request has the
\* first 90 bytes of the requested identifier in persistent storage when the
\* device restarts; a successful update started by the hold in
\* ManualUpdatePortal has no identifier and leaves the stored one as it was.
C4_SuccessPersistsRequested ==
  ota.outcome = "success" =>
    /\ pc = "restart"
    /\ (ota.targetETag # <<>>) = (ota.modeAtEntry = MODE_NORMAL)
    /\ (ota.targetETag = <<>>) = (ota.modeAtEntry = MODE_OTA)
    /\ IF ota.targetETag # <<>>
       THEN StoredETag(eeprom) = FirstBytes(ota.targetETag, ETagMaxLen)
       ELSE ETagRegion(eeprom) = ETagRegion(ota.eepromAtEntry)

\* a successful update whose identifier is longer than the stored field
C4_Witness ==
  /\ pc = "restart"
  /\ ota.outcome = "success"
  /\ ota.targetETag = ETagLong

\* C4 as stated: after every successful update, however it was started, the
\* update had an identifier and that identifier is in persistent storage.
C4_AsStated ==
  ota.outcome = "success" =>
    /\ ota.targetETag # <<>>
    /\ LoadETag(eeprom) = ota.targetETag

\* the check of this iteration saw a success status and a non-empty
\* identifier while none was stored
FirstObservation ==
  /\ pc = "loop"
  /\ currentFirmwareETag = <<>>
  /\ httpCheck'.ran
  /\ httpCheck'.code = HTTP_CODE_OK
  /\ httpCheck'.etag # <<>>

C6_PendingExactlyOnNewTag ==
  /\ (httpCheck.ran /\ currentFirmwareETag # <<>>) =>
       /\ (pendingOTA_ETag # <<>>) =
            (/\ httpCheck.code = HTTP_CODE_OK
             /\ httpCheck.etag # <<>>
             /\ httpCheck.etag # currentFirmwareETag)
       /\ pendingOTA_ETag # <<>> => pendingOTA_ETag = httpCheck.etag
       /\ (pc = "ota_entry") = (pendingOTA_ETag # <<>>)
  /\ (pc = "ota_entry" /\ ota.modeAtEntry = MODE_NORMAL) =>
       /\ pendingOTA_ETag # <<>>
       /\ ota.targetETag = pendingOTA_ETag
  /\ (pc = "loop") => pendingOTA_ETag = <<>>

\* a check with an identifier stored sees the same identifier again and
\* raises nothing
C6_Witness ==
  /\ pc = "loop"
  /\ httpCheck.ran
  /\ httpCheck.code = HTTP_CODE_OK
  /\ currentFirmwareETag # <<>>
  /\ httpCheck.etag = currentFirmwareETag

\* C7 as stated: when a weather fetch completes, weatherValid is true only if
\* the temperature and the condition are both non-empty.
C7_AsStated ==
  [][(WeatherCycleEnds /\ weatherValid') =>
       (weather'.temp # <<>> /\ weather'.cond # <<>>)]_vars

\* C8 as stated: a response whose record is rejected changes none of the five
\* text fields of the weather snapshot.
C8_AsStated ==
  [][(WeatherCycleEnds /\ RecordRejected(weatherResponseBuffer')) =>
       weather' = weather]_vars

C10_SleepOnlyOnYes ==
  [][/\ (pc' = "sleep_release" /\ pc # "sleep_release") =>
          /\ HoldFired
          /\ systemMode = MODE_SLEEP_CONFIRM
          /\ sleepSelectedYes
     /\ (HoldFired /\ systemMode = MODE_SLEEP_CONFIRM /\ sleepSelectedYes) =>
          /\ systemMode' # MODE_CONFIG
          /\ wifiMode' = wifiMode
     /\ (pc' = "sleeping" /\ pc # "sleeping") => pc = "sleep_release"]_vars

\* enterSleep waits for the release after the hold with Yes selected
C10_Witness ==
  /\ pc = "sleep_release"
  /\ systemMode = MODE_SLEEP_CONFIRM
  /\ sleepSelectedYes
  /\ btnDown

\* a step of loop() in which the button is found released after a press
\* of at most the debounce time, and one after a longer press
ShortRelease ==
  /\ pc = "loop"
  /\ releasedAfter' \in 0..(DebounceMs - 1)

DebouncedRelease ==
  /\ pc = "loop"
  /\ releasedAfter' > DebounceMs

\* C11: a press released after less than 50 ms changes neither the mode nor
\* the Yes/No selection, requests no screen and restarts nothing; it only
\* resets the press timer.
C11_ShortPressIgnored ==
  [][ShortRelease =>
       /\ systemMode' = systemMode
       /\ sleepSelectedYes' = sleepSelectedYes
       /\ pc' \notin {"restart", "sleep_release"}
       /\ currentScreen' \in {currentScreen, NextScreen(currentScreen)}
       /\ currentScreen' = SCREEN_LUCKY => currentScreen = SCREEN_LUCKY
       /\ ~btnDown'
       /\ sinceBtnPress' = 0
       /\ ~btnActionTaken']_vars

\* a short press has been released in ConfigPortal, where a longer one
\* restarts the device
C11_Witness ==
  /\ pc = "loop"
  /\ systemMode = MODE_CONFIG
  /\ releasedAfter \in 0..(DebounceMs - 1)

\* C12: in SleepConfirm a debounced release toggles the Yes/No selection if
\* no hold action was taken during the press and leaves it alone if one was;
\* the mode stays SleepConfirm either way.
C12_ReleaseToggles ==
  [][(DebouncedRelease /\ systemMode = MODE_SLEEP_CONFIRM) =>
       /\ systemMode' = MODE_SLEEP_CONFIRM
       /\ pc' = "loop"
       /\ sleepSelectedYes' =
            IF btnActionTaken THEN sleepSelectedYes ELSE ~sleepSelectedYes]_vars

\* a release in SleepConfirm has toggled the selection to Yes
C12_Witness ==
  /\ pc = "loop"
  /\ systemMode = MODE_SLEEP_CONFIRM
  /\ releasedAfter > DebounceMs
  /\ sleepSelectedYes

\* C13: in Normal mode a debounced release without a hold action requests
\* the lucky-number screen (currentScreen = 4, screen timer restarted) and
\* nothing else: the mode is unchanged, the task states are as before when
\* the tasks are called, and the snapshots change only by a task that was
\* running.
C13_ReleaseRequestsLucky ==
  [][(DebouncedRelease /\ systemMode = MODE_NORMAL /\ ~btnActionTaken) =>
       /\ systemMode' = MODE_NORMAL
       /\ currentScreen' = SCREEN_LUCKY
       /\ sinceScreenSwitch' = 0
       /\ pc' \in {"loop", "ota_entry"}
       /\ tasksMidLoop' # NoMidLoop =>
            tasksMidLoop'.afterScreen = <<weatherTaskState, forecastTaskState>>
       /\ (weather' # weather \/ weatherValid' # weatherValid) =>
            weatherTaskState = "W_READ_BODY"
       /\ (forecasts' # forecasts \/ forecastValid' # forecastValid) =>
            forecastTaskState = "F_CONNECTING"]_vars

\* the lucky-number screen has been requested by a release
C13_Witness ==
  /\ pc = "loop"
  /\ systemMode = MODE_NORMAL
  /\ releasedAfter > DebounceMs
  /\ currentScreen = SCREEN_LUCKY
  /\ sinceScreenSwitch = 0

\* C16: at boot with a valid signature, a setup() that leaves the device in
\* access-point mode (the button was held, or the join attempt failed) leaves
\* it in ConfigPortal, so that loop() serves the portal.
C16_AsStated ==
  [][(pc = "restart" /\ pc' = "loop" /\ SignatureValid(eeprom)
        /\ wifiMode' = "AP") => systemMode' = MODE_CONFIG]_vars

\* the capacity of each string field: the bytes its region holds after the
\* length byte and, for the URLs, the limit of saveSettings
Truncated(s, capacity) == SubSeq(s, 1, Min(Len(s), capacity))

\* setup() has loaded the record that the last form left complete
LoadedAfterSave ==
  /\ pc = "loop"
  /\ store.kind = "saved"
  /\ SignatureValid(eeprom)

\* C17: after a save, the next load returns every string field truncated to
\* its capacity and the timezone offset as it was.
C17_AsStated ==
  LoadedAfterSave =>
    /\ settings.wifiSSID = Truncated(store.form.wifiSSID, NameRoom)
    /\ settings.wifiPass = Truncated(store.form.wifiPass, NameRoom)
    /\ settings.city = Truncated(store.form.city, NameRoom)
    /\ settings.greetingUrl = Truncated(store.form.greetingUrl, GreetingSaveMax)
    /\ firmwareUrl = Truncated(store.url, FirmwareSaveMax)
    /\ settings.luckyImageUrl =
         Truncated(store.form.luckyImageUrl, LuckySaveMax)
    /\ settings.timezoneOffset = store.form.timezoneOffset

\* the offsets of the record's regions, and the end of the store
RegionOffsets ==
  {ADDR_SSID, ADDR_PASS, ADDR_CITY, ADDR_TZ, ADDR_GREETING,
   ADDR_FIRMWARE_URL, ADDR_SIGNATURE, ADDR_ETAG, ADDR_LUCKY_URL, EEPROM_SIZE}

\* the offset of the region after the one that starts at addr
RegionEnd(addr) ==
  CHOOSE o \in RegionOffsets :
    o > addr /\ \A x \in RegionOffsets : x > addr => o <= x

\* saveSettings has been called with the globals store.form and store.url
SaveCalled == store.kind \in {"saved", "interrupted"}

\* C18: the bytes saveSettings writes for a field, length byte and data,
\* lie between the field's offset and the offset of the next field.
C18_AsStated ==
  SaveCalled =>
    \A i \in DOMAIN SaveFields(store.form, store.url) :
      LET f == SaveFields(store.form, store.url)[i]
      IN f.addr + Len(f.bytes) <= RegionEnd(f.addr)

\* C19: loadSettings never fails, and after a boot that found no valid
\* signature every string is empty and the timezone offset is zero.
C19_AsStated ==
  /\ ~settings.fault
  /\ (pc = "loop" /\ ~SignatureValid(eeprom)) =>
       /\ settings = SettingsInitial
       /\ firmwareUrl = <<>>
       /\ currentFirmwareETag = <<>>

\* C20: after a power loss inside saveSettings the next boot accepts no
\* record (it finds the signature valid only if the flash was not touched).
C20_AsStated ==
  (pc = "loop" /\ store.kind = "interrupted" /\ SignatureValid(eeprom)) =>
    eeprom = store.before

\* the times at which setup() samples the button
SampleTimes == {t \in 0..(BootWindowMs - 1) : t % BootSampleMs = 0}

\* the button is sampled low more than 10 times in a row, each sample
\* standing for 10 ms
SampledLowOver100ms(signal) ==
  \E t \in SampleTimes :
    /\ t + BootLowCount * BootSampleMs \in SampleTimes
    /\ \A u \in SampleTimes :
         (t <= u /\ u <= t + BootLowCount * BootSampleMs) => PinLow(signal, u)

FormAnswered == store' # store /\ store'.kind # "interrupted"

\* C21: a submitted form is accepted (the fields become the configuration,
\* the record is saved, the device restarts) exactly if SSID, city and
\* timezone are all non-empty; a rejected form changes no configuration
\* field in memory and no persistent byte, and does not restart.
C21_AcceptedIffComplete ==
  [][FormAnswered =>
       LET form == store'.request
           complete == form.ssid # <<>> /\ form.city # <<>> /\ form.tz # <<>>
       IN /\ store'.kind = (IF complete THEN "saved" ELSE "rejected")
          /\ complete =>
               /\ settings'.wifiSSID = form.ssid
               /\ settings'.wifiPass = form.pass
               /\ settings'.city = form.city
               /\ settings'.greetingUrl = form.greeting
               /\ settings'.luckyImageUrl = form.lucky
               /\ firmwareUrl' = form.firmware
               /\ SignatureValid(eeprom')
               /\ EepromRead(eeprom', ADDR_CITY) = Len(form.city) % 256
               /\ pc' = "restart"
          /\ ~complete =>
               /\ settings' = settings
               /\ firmwareUrl' = firmwareUrl
               /\ currentFirmwareETag' = currentFirmwareETag
               /\ eeprom' = eeprom
               /\ pc' = pc]_vars

\* a form without a city has been rejected while the stored record is
\* still the erased one
C21_Witness ==
  /\ pc = "loop"
  /\ store.kind = "rejected"
  /\ store.request.ssid # <<>>
  /\ store.request.city = <<>>
  /\ eeprom = ErasedEeprom

OtaExecuting ==
  pc \in {"ota_entry", "ota_connect", "ota_begin", "ota_stream", "ota_verify"}

\* C23: startOTAUpdate is entered, and clears the snapshots, the response
\* buffer and the connections, only when both tasks are idle.
C23_AsStated ==
  OtaExecuting => ota.weatherIdleAtEntry /\ ota.forecastIdleAtEntry

\* C29: whenever startOTAUpdate is executing, the mode is RemoteUpdate.
C29_AsStated == OtaExecuting => systemMode = MODE_OTA

\* C24: no iteration of loop() opens a connection to the firmware server
\* while the weather task holds its connection open.
C24_AsStated ==
  [][~(/\ pc = "loop"
       /\ weatherClient.open
       /\ httpCheck'.ran
       /\ httpCheck'.code # -1)]_vars

\* loop() is being called in Normal mode
TicksInNormal == pc = "loop" /\ systemMode = MODE_NORMAL

\* millis() keeps advancing: the display keeps leaving the clock screen and
\* coming back to it, which takes a screen interval each time (470-491)
TimePasses ==
  /\ []<>(currentScreen = SCREEN_TIME)
  /\ []<>(currentScreen # SCREEN_TIME)

\* C25: while loop() keeps being called in Normal mode and time passes, a
\* task that is outside Idle returns to Idle, whatever the link does and
\* with the peer never answering.
C25_AsStated ==
  TimePasses =>
  /\ (TicksInNormal /\ weatherTaskState # "W_IDLE")
       ~> (weatherTaskState = "W_IDLE" \/ ~TicksInNormal)
  /\ (TicksInNormal /\ forecastTaskState # "F_IDLE")
       ~> (forecastTaskState = "F_IDLE" \/ ~TicksInNormal)

\* handleForecastTask found the task in F_CONNECTING: one forecast fetch cycle
\* runs in this call of loop()
ForecastCycleRuns ==
  /\ pc = "loop"
  /\ tasksMidLoop' # NoMidLoop
  /\ tasksMidLoop'.afterWeather[2] = "F_CONNECTING"

\* C26: a forecast fetch cycle either leaves forecasts[0..2] as they were, or
\* leaves in them the three lines of the document it fetched with
\* forecastValid set.
C26_AsStated ==
  [][ForecastCycleRuns =>
       \/ forecasts' = forecasts
       \/ /\ forecastValid'
          /\ \E doc \in ForecastDocs :
               /\ ~ForecastRejected(doc)
               /\ forecasts' = [i \in 1..3 |-> ForecastLine(doc.weather[i])]]_vars

\* no flash has been reserved or written by the running update
FlashUntouched(o) == o.updSize = 0 /\ o.updWritten = 0 /\ ~o.updError

\* what holds of the attempts at every point of startOTAUpdate
AttemptsSoFar ==
  /\ ota.attempt <= OTAAttempts
  /\ pc = "ota_connect" =>
       ota.attempt < OTAAttempts /\ ota.httpCode # HTTP_CODE_OK
  /\ pc \in {"ota_begin", "ota_stream", "ota_verify"} =>
       ota.httpCode = HTTP_CODE_OK
  /\ ~FlashUntouched(ota) => ota.httpCode = HTTP_CODE_OK
  /\ ota.outcome = "http" =>
       /\ ota.attempt = OTAAttempts
       /\ ota.httpCode # HTTP_CODE_OK
       /\ FlashUntouched(ota)

\* C27: startOTAUpdate makes at most three connection attempts; an attempt
\* whose GET returns 200 is the last one and leads to Update.begin; a failed
\* attempt is followed by the next one or, when it was the third, by the
\* restart; flash is reserved or written only after a 200.
C27_AtMostThreeAttempts ==
  [][/\ AttemptsSoFar'
     /\ pc = "ota_connect" =>
          /\ FlashUntouched(ota')
          /\ eeprom' = eeprom
          /\ \/ ota'.outcome = "oom" /\ pc' = "restart"
             \/ /\ ota'.httpCode = HTTP_CODE_OK
                /\ ota'.attempt = ota.attempt
                /\ pc' = "ota_begin"
             \/ /\ ota'.httpCode # HTTP_CODE_OK
                /\ ota'.attempt = ota.attempt + 1
                /\ pc' = IF ota'.attempt < OTAAttempts
                         THEN "ota_connect" ELSE "restart"
                /\ pc' = "restart" => ota'.outcome = "http"]_vars

\* the third attempt succeeded and flash has been reserved
C27_Witness ==
  /\ pc = "ota_stream"
  /\ ota.attempt = OTAAttempts - 1
  /\ ota.httpCode = HTTP_CODE_OK
  /\ ota.updSize > 0

\* C28: control that has entered startOTAUpdate stays in it until
\* ESP.restart(), never coming back to loop(), and it does reach
\* ESP.restart(), whatever the server and the link do.
C28_EndsInRestart ==
  /\ [][OtaExecuting => (OtaExecuting' \/ pc' = "restart")]_vars
  /\ OtaExecuting ~> (pc = "restart" /\ ota.outcome # "running")

\* the server stopped sending and the download loop gave up
C28_Witness ==
  /\ pc = "restart"
  /\ ota.outcome = "timeout"
  /\ ota.received > 0

\* enterSleep has run to its ESP.restart(): the radio is off and the mode is
\* still the one the sleep was confirmed in
WokenBySleepButton ==
  /\ pc = "restart"
  /\ systemMode = MODE_SLEEP_CONFIRM
  /\ wifiMode = "OFF"

\* C30: enterSleep keeps the radio as it is while it reads the button low,
\* switches it off and goes to sleep on the first high reading, stays asleep
\* while the pin reads high and restarts on the first low reading, touching
\* nothing else on the way; the setup() that follows, with a valid signature
\* and a join that succeeded (which is attempted only when the button is not
\* held through the boot window), leaves the device in Normal mode in station
\* mode.
C30_SleepAndWake ==
  [][/\ SleepWaitReleaseAt("LOW") => (pc' = "sleep_release" /\ wifiMode' = wifiMode)
     /\ SleepWaitReleaseAt("HIGH") => (pc' = "sleeping" /\ wifiMode' = "OFF")
     /\ SleepUntilWakeAt("HIGH") => pc' = "sleeping"
     /\ SleepUntilWakeAt("LOW") => WokenBySleepButton'
     /\ pc' = "sleeping" => pc \in {"sleep_release", "sleeping"}
     /\ (pc' = "restart" /\ pc \in {"sleep_release", "sleeping"}) =>
          pc = "sleeping"
     /\ pc \in {"sleep_release", "sleeping"} =>
          UNCHANGED <<eeprom, settings, systemMode, firmwareUrl,
                      currentFirmwareETag>>
     /\ (WokenBySleepButton /\ SignatureValid(eeprom) /\ wifiMode' = "STA") =>
          /\ systemMode' = MODE_NORMAL
          /\ currentScreen' = SCREEN_TIME
          /\ weatherTaskState' = "W_IDLE" /\ forecastTaskState' = "F_IDLE"
          /\ eeprom' = eeprom]_vars

\* a configured device has slept with the radio off and has been woken by
\* the button
C30_Witness ==
  /\ WokenBySleepButton
  /\ sleepSelectedYes
  /\ SignatureValid(eeprom)

\* a step of loop() with the effect of a hold action: the mode changes or
\* enterSleep is entered
HoldEffect ==
  /\ pc = "loop"
  /\ systemMode' # systemMode \/ pc' = "sleep_release"

\* C31: between a press and its release loop() takes at most one hold action.
\* An action is taken only for a press that has lasted more than 2000 ms and
\* has caused none yet; once it has caused one, the iterations that still
\* find the button down change neither the mode nor the selection and call
\* nothing; the release clears the flag, and a new press starts its time at 0
\* with no action in the iteration that finds it.
C31_OneActionPerHold ==
  [][/\ HoldEffect =>
          /\ btnDown /\ ~btnActionTaken
          /\ btnDown' /\ sinceBtnPress' > HoldMs
          /\ pc' = "loop" => btnActionTaken'
     /\ (pc = "loop" /\ btnDown /\ btnActionTaken /\ btnDown') =>
          /\ ~HoldEffect
          /\ pc' = "loop"
          /\ btnActionTaken'
          /\ UNCHANGED <<sleepSelectedYes, wifiMode>>
     /\ (pc = "loop" /\ ~btnDown /\ btnDown') =>
          /\ ~HoldEffect
          /\ sinceBtnPress' = 0
          /\ ~btnActionTaken'
     /\ (pc = "loop" /\ pc' = "loop" /\ ~btnDown') => ~btnActionTaken']_vars

\* the hold that led from Normal to SleepConfirm goes on, the selection is
\* No and the portal has not been entered
C31_Witness ==
  /\ pc = "loop"
  /\ systemMode = MODE_SLEEP_CONFIRM
  /\ ~sleepSelectedYes
  /\ btnDown
  /\ btnActionTaken
  /\ sinceBtnPress > HoldMs
  /\ wifiMode = "STA"

\* handleWeatherTask is called with the task in W_WAIT_HEADER
HeaderTick ==
  /\ pc = "loop"
  /\ weatherTaskState = "W_WAIT_HEADER"
  /\ tasksMidLoop' # NoMidLoop

\* C32: a call of handleWeatherTask in W_WAIT_HEADER that finds data goes to
\* W_READ_BODY with the deadline restarted; one that finds none leaves the
\* task in W_WAIT_HEADER only while no more than 10 s have passed since the
\* request, and otherwise stops the client and goes to W_IDLE; the snapshot
\* is not touched.
C32_HeaderDeadline ==
  [][HeaderTick =>
       /\ \/ /\ weatherTaskState' = "W_READ_BODY"
             /\ sinceWeatherTimer' = 0
             /\ weatherClient'.open /\ weatherClient'.rx # <<>>
          \/ /\ weatherTaskState' = "W_WAIT_HEADER"
             /\ sinceWeatherTimer' <= TaskTimeoutMs
             /\ weatherClient'.open /\ weatherClient'.rx = <<>>
          \/ /\ weatherTaskState' = "W_IDLE"
             /\ weatherClient' = ClientClosed
       /\ UNCHANGED <<weather, weatherValid, weatherResponseBuffer>>]_vars

\* the deadline has ended a wait for the header
C32_Witness ==
  /\ pc = "loop"
  /\ tasksMidLoop # NoMidLoop
  /\ tasksMidLoop.afterScreen[1] = "W_WAIT_HEADER"
  /\ weatherTaskState = "W_IDLE"
  /\ weatherClient = ClientClosed

\* the weather task is idle and lastWeatherFetch is where the failed connect
\* of line 1285 put it: less than the 60 s of the retry delay have passed
WeatherRetryPending ==
  /\ pc = "loop"
  /\ weatherTaskState = "W_IDLE"
  /\ sinceWeatherFetch = WeatherRetryBackdate

\* C33: after a failed connect the weather task leaves W_IDLE again only
\* once lastWeatherFetch, back-dated by the failure, is more than 15 minutes
\* old, that is 60 s after the failure, on every screen and with a valid or
\* an invalid snapshot.
C33_AsStated ==
  [][(WeatherRetryPending /\ weatherTaskState' = "W_CONNECTING") =>
       sinceWeatherFetch' > WeatherStaleMs]_vars

\* the forecast task is idle and lastForecastFetch is where a failed cycle
\* put it: less than the 5 minutes of the cooldown have passed
ForecastRetryPending ==
  /\ pc = "loop"
  /\ forecastTaskState = "F_IDLE"
  /\ sinceForecastFetch = ForecastRetryBackdate

\* C34: after a failed cycle handleForecastTask takes the task out of F_IDLE
\* again only once lastForecastFetch, back-dated by the failure, is more
\* than an hour old, that is 5 minutes after the failure, with or without a
\* valid forecast.
C34_AsStated ==
  [][(ForecastRetryPending /\ forecastTaskState' = "F_CONNECTING") =>
       sinceForecastFetch' > ForecastStaleMs]_vars

\* a call of loop() in which both task handlers ran
TasksTick ==
  /\ pc = "loop"
  /\ tasksMidLoop' # NoMidLoop

\* C35: a call of the task handlers changes the weather snapshot only when it
\* finds the weather task in W_READ_BODY and leaves it in W_IDLE, and changes
\* the forecast snapshot only when it finds the forecast task in F_READ_BODY
\* and leaves it in F_IDLE; every other transition leaves the snapshot alone.
C35_AsStated ==
  [][TasksTick =>
       /\ (<<weather, weatherValid>>' # <<weather, weatherValid>>
             => /\ tasksMidLoop'.afterScreen[1] = "W_READ_BODY"
                /\ weatherTaskState' = "W_IDLE")
       /\ (<<forecasts, forecastValid>>' # <<forecasts, forecastValid>>
             => /\ tasksMidLoop'.afterWeather[2] = "F_READ_BODY"
                /\ forecastTaskState' = "F_IDLE")]_vars

\* the mode changes of lines 340, 351, 357 and 362
ModeChain ==
  { <<MODE_NORMAL, MODE_SLEEP_CONFIRM>>, <<MODE_SLEEP_CONFIRM, MODE_CONFIG>>,
    <<MODE_CONFIG, MODE_UPDATE>>, <<MODE_UPDATE, MODE_OTA>> }

\* C36: between two runs of setup() systemMode changes only along
\* Normal -> SleepConfirm -> ConfigPortal -> ManualUpdatePortal ->
\* RemoteUpdate, one step at a time, so it never comes back to Normal; and
\* the call of loop() that sees the button released leaves systemMode as it
\* was.
C36_ModeOnlyAdvances ==
  [][pc # "restart" =>
       /\ systemMode' # systemMode => <<systemMode, systemMode'>> \in ModeChain
       /\ (btnDown /\ ~btnDown') => systemMode' = systemMode]_vars

\* the button was released after the hold that opened the update portal, and
\* the device is still in ManualUpdatePortal
C36_Witness ==
  /\ pc = "loop"
  /\ systemMode = MODE_UPDATE
  /\ ~btnDown
  /\ releasedAfter > HoldMs

\* the check of this iteration saw, with a success status, an identifier
\* whose persisted form is what the entity-tag region holds (startOTAUpdate
\* is the only writer of that region here), the device having booted from it
SameIdentifierObserved ==
  /\ pc = "loop"
  /\ httpCheck'.ran
  /\ httpCheck'.code = HTTP_CODE_OK
  /\ httpCheck'.etag # <<>>
  /\ StoredETag(eeprom) = ETagToStore(httpCheck'.etag)
  /\ currentFirmwareETag = LoadETag(eeprom)

\* C37: once an update has persisted an identifier and the device has
\* rebooted and loaded it, a check that observes that identifier again
\* raises no pending request and starts no update, whatever the length of
\* the identifier.
C37_AsStated ==
  [][SameIdentifierObserved =>
       /\ pendingOTA_ETag' = <<>>
       /\ pc' # "ota_entry"]_vars

\* the weather task is idle in Normal mode with a snapshot the start
\* condition of line 1261 calls stale, by age or on the weather screen
WeatherStaleByAge ==
  /\ TicksInNormal
  /\ weatherTaskState = "W_IDLE"
  /\ sinceWeatherFetch > WeatherStaleMs

WeatherStaleOnScreen ==
  /\ TicksInNormal
  /\ weatherTaskState = "W_IDLE"
  /\ currentScreen = SCREEN_WEATHER
  /\ ~weatherValid

\* C38: where no forecast cycle ever succeeds, an idle weather task whose
\* snapshot is stale leaves W_IDLE while loop() keeps being called in Normal
\* mode: by age in every case, and on the weather screen unless the display
\* has moved on first.
C38_WeatherNotStarved ==
  /\ WeatherStaleByAge ~> (weatherTaskState # "W_IDLE" \/ ~TicksInNormal)
  /\ WeatherStaleOnScreen
       ~> (weatherTaskState # "W_IDLE" \/ ~TicksInNormal
             \/ currentScreen # SCREEN_WEATHER)

\* the weather task has started from a snapshot stale by age, right after a
\* forecast cycle that failed
C38_Witness ==
  /\ TicksInNormal
  /\ weatherTaskState = "W_CONNECTING"
  /\ sinceWeatherFetch > WeatherStaleMs
  /\ ~forecastValid
  /\ forecastTaskState = "F_IDLE"
  /\ sinceForecastFetch = ForecastRetryBackdate
  /\ tasksMidLoop # NoMidLoop
  /\ tasksMidLoop.afterScreen[1] = "W_IDLE"

\* handleConfigForm has run saveSettings to its end
SaveCompletes == store'.count = store.count + 1 /\ store'.kind = "saved"

\* C39: saveSettings leaves every byte of the entity-tag region as it was,
\* however long the strings of the record are, and loadSettings reads the
\* same entity tag after the save as before it.
C39_SaveKeepsETag ==
  [][SaveCompletes =>
       /\ ETagRegion(eeprom') = ETagRegion(eeprom)
       /\ LoadETag(eeprom') = LoadETag(eeprom)]_vars

\* a record whose strings are all 255 bytes long has been saved on a device
\* that holds an entity tag, and the device has booted from it
C39_Witness ==
  /\ pc = "loop"
  /\ store.kind = "saved"
  /\ store.request = FormLongest
  /\ StoredETag(eeprom) = ETagToStore(ETagLong)
  /\ currentFirmwareETag = ETagToStore(ETagLong)

\* C40: between two runs of setup() neither weatherValid nor forecastValid
\* goes from true to false, whatever the later fetch cycles bring.
C40_ValidFlagsMonotone ==
  [][pc # "restart" =>
       /\ weatherValid => weatherValid'
       /\ forecastValid => forecastValid']_vars

\* with a valid weather snapshot a later cycle has failed to connect, and the
\* flag is still set
C40_Witness ==
  /\ pc = "loop"
  /\ weatherValid
  /\ weatherTaskState = "W_IDLE"
  /\ sinceWeatherFetch = WeatherRetryBackdate
  /\ tasksMidLoop # NoMidLoop
  /\ tasksMidLoop.afterScreen[1] = "W_CONNECTING"

=============================================================================
